---------------------------- MODULE Spec2Model ----------------------------
(***************************************************************************)
(* Recurrent layer orchestration of NetworkRecurrentLayer.py and the       *)
(* parameter container of NetworkBaseLayer.py.                             *)
(*                                                                         *)
(* Tensors are sequences: a vector is a sequence of numbers, a (batch,     *)
(* feature) matrix a sequence of rows, a (time, batch, feature) tensor a   *)
(* sequence of matrices.  Floating point numbers are fixed-point integers  *)
(* counted in units of 1/Scale, so 1.0 is Scale.                           *)
(***************************************************************************)
EXTENDS Integers, Sequences, FiniteSets, TLC

VARIABLES
  stepIn, stepOut, stepPc,  \* one call of a unit's step function
  layer, layerPc,           \* one construction of a RecurrentUnitLayer
  scan, scanPc,             \* the scans of the LSTM units on one input
  pm, pmPc,                 \* the parameters of one layer of a network
  call, callPc              \* one call of a function of a layer and its result

stepVars == <<stepIn, stepOut, stepPc>>

layerVars == <<layer, layerPc>>

scanVars == <<scan, scanPc>>

paramVars == <<pm, pmPc>>

callVars == <<call, callPc>>

vars == <<stepIn, stepOut, stepPc, layer, layerPc, scan, scanPc, pm, pmPc, call, callPc>>

(***************************************************************************)
(* Bounds of the model.                                                    *)
(***************************************************************************)
\* resolution of the fixed-point numbers: 1.0 is Scale
Scale == 4
\* number of cells of the unit in the step and scan models
NUnits == 1
\* rows of a batch (the batch size of the sources' test values)
NBatch == 2
\* longest sequence (time axis) of a constructed layer
MaxTime == 3
\* largest sampling stride of a constructed layer
MaxSampling == 3
\* largest dimension n, m of a weight matrix
MaxDim == 3
\* largest depth of a layer
MaxDepth == 3

(***************************************************************************)
(* Fixed-point arithmetic and the two squashing functions, tabulated at    *)
(* quarter steps and clipped to the range of the resolution.               *)
(***************************************************************************)
Abs(x) == IF x < 0 THEN -x ELSE x

Min2(a, b) == IF a < b THEN a ELSE b

Max2(a, b) == IF a < b THEN b ELSE a

\* a * b of two fixed-point numbers, rounded towards zero
FxMul(a, b) == IF a * b >= 0 THEN (a * b) \div Scale ELSE -((-(a * b)) \div Scale)

\* T.tanh on a fixed-point number (x counts quarters)
TanhPos(x) ==
  CASE x = 0 -> 0
    [] x = 1 -> 1
    [] x = 2 -> 2
    [] x \in 3..5 -> 3
    [] OTHER -> 4

Tanh(x) == IF x >= 0 THEN Min2(TanhPos(x), Scale) ELSE -Min2(TanhPos(-x), Scale)

\* T.nnet.sigmoid on a fixed-point number (x counts quarters)
SigmoidQ(x) ==
  CASE x <= -8 -> 0
    [] x \in -7..-3 -> 1
    [] x \in -2..2 -> 2
    [] x \in 3..7 -> 3
    [] OTHER -> 4

Sigmoid(x) == Min2(SigmoidQ(x), Scale)

(***************************************************************************)
(* Vector and matrix helpers.                                              *)
(***************************************************************************)
\* x[a:b] of python on a sequence (0-based, end exclusive)
Slice(x, a, b) == [k \in 1..(Max2(Min2(b, Len(x)) - a, 0)) |-> x[a + k]]

VecAdd(a, b) == [k \in 1..Len(a) |-> a[k] + b[k]]

VecSub(a, b) == [k \in 1..Len(a) |-> a[k] - b[k]]

VecMul(a, b) == [k \in 1..Len(a) |-> FxMul(a[k], b[k])]

VecTanh(a) == [k \in 1..Len(a) |-> Tanh(a[k])]

VecSigmoid(a) == [k \in 1..Len(a) |-> Sigmoid(a[k])]

RECURSIVE SumTo(_, _)
SumTo(f, n) == IF n = 0 THEN 0 ELSE f[n] + SumTo(f, n - 1)

\* T.dot(v, W) of a vector v (length n) and a matrix W (n rows of m columns)
DotVec(v, W) ==
  [j \in 1..Len(W[1]) |-> SumTo([k \in 1..Len(v) |-> FxMul(v[k], W[k][j])], Len(v))]

\* T.dot(Y, W) of a (batch, n) matrix and an (n, m) matrix
Dot(Y, W) == [b \in 1..Len(Y) |-> DotVec(Y[b], W)]

\* T.outer(i, o): row b is i[b] * o
Outer(i, o) == [b \in 1..Len(i) |-> [k \in 1..Len(o) |-> FxMul(i[b], o[k])]]

Ones(n) == [k \in 1..n |-> Scale]

Zeros(n) == [k \in 1..n |-> 0]

(***************************************************************************)
(* LSTME.step without a recurrent transform: one iteration of the LSTM     *)
(* recursion on a batch.  i_t is the index row as floats (0 or 1.0), z_t   *)
(* the (batch, 4 * n_units) pre-activation, y_p and c_p the carried        *)
(* (batch, n_units) output and cell state.                                 *)
(***************************************************************************)
\* the slices of the pre-activation row z, in the order
\* [input gate, forget gate, output gate, candidate input]
LSTMEGates(z, partition) ==
  [ingate |-> VecSigmoid(Slice(z, 0, partition)),
   forgetgate |-> VecSigmoid(Slice(z, partition, 2 * partition)),
   outgate |-> VecSigmoid(Slice(z, 2 * partition, 3 * partition)),
   input |-> VecTanh(Slice(z, 3 * partition, 4 * partition))]

\* c_t = forgetgate * c_p + ingate * input
LSTMECell(g, c_p) == VecAdd(VecMul(g.forgetgate, c_p), VecMul(g.ingate, g.input))

\* (y_t * i_output, c_t * i_h + c_p * (1 - i_h)) with y_t = outgate * T.tanh(c_t)
LSTMEMasked(outgate, c_t, c_p, i_output, i_h) ==
  [y |-> VecMul(VecMul(outgate, VecTanh(c_t)), i_output),
   c |-> VecAdd(VecMul(c_t, i_h), VecMul(c_p, VecSub(Ones(Len(i_h)), i_h)))]

\* i_row is the row of T.outer(i_t, self.o_output) and of T.outer(i_t, self.o_h)
LSTMERowOut(g, c_p, i_row) == LSTMEMasked(g.outgate, LSTMECell(g, c_p), c_p, i_row, i_row)

\* one batch row of the step; zre is that row of T.dot(y_p, W_re)
LSTMEStepRow(i_t, z_t, y_p, c_p, zre) ==
  LSTMERowOut(LSTMEGates(VecAdd(z_t, zre), Len(z_t) \div 4), c_p,
              [k \in 1..Len(c_p) |-> FxMul(i_t, Scale)])

\* the rows' (y, c) as the two (batch, n_units) matrices
SplitRows(rows) ==
  [y |-> [b \in 1..Len(rows) |-> rows[b].y], c |-> [b \in 1..Len(rows) |-> rows[b].c]]

\* LSTME.step on the whole batch: the next (y, c)
LSTMEStep(i_t, z_t, y_p, c_p, W_re) ==
  SplitRows([b \in 1..Len(i_t) |->
               LSTMEStepRow(i_t[b], z_t[b], y_p[b], c_p[b], DotVec(y_p[b], W_re))])

(***************************************************************************)
(* The step model: the inputs of one call of LSTME.step are drawn from     *)
(* small sets and the step is applied to them.                             *)
(***************************************************************************)
\* values of one gate's pre-activation
GateVals == {-2 * Scale, 2 * Scale}

\* a pre-activation row: every gate's value, repeated over its n_units cells
GateRow(g) == [k \in 1..(4 * NUnits) |-> g[((k - 1) \div NUnits) + 1]]

ZRows == {GateRow(g) : g \in [1..4 -> GateVals]}

\* a carried state row: one value repeated over the cells
StateRow(v) == [k \in 1..NUnits |-> v]

YRows == {StateRow(v) : v \in {0, 2}}

CRows == {StateRow(v) : v \in {-Scale, Scale}}

\* recurrent weights (n_units rows of 4 * n_units columns): all zero, or all 1.0
WreSet == {[r \in 1..NUnits |-> [k \in 1..(4 * NUnits) |-> w]] : w \in {0, Scale}}

IndexRows == [1..NBatch -> {0, Scale}]

StepInit ==
  /\ stepPc = "ready"
  /\ \E y \in [1..NBatch -> YRows], c \in [1..NBatch -> CRows], W \in WreSet :
       stepIn = [i_t |-> <<>>, z_t |-> <<>>, y_p |-> y, c_p |-> c, W_re |-> W]
  /\ stepOut = [y |-> <<>>, c |-> <<>>]
  /\ layer = [status |-> "none"]
  /\ layerPc = "off"
  /\ scan = [status |-> "none"]
  /\ scanPc = "off"
  /\ pm = [status |-> "none"]
  /\ pmPc = "off"
  /\ call = [op |-> "none"]
  /\ callPc = "off"

\* theano.scan calls step(i_t, x_t, z_t, y_p, c_p) for one timestep
CallLSTMEStep ==
  /\ stepPc = "ready"
  /\ \E i \in IndexRows, z \in [1..NBatch -> ZRows] :
       /\ stepIn' = [stepIn EXCEPT !.i_t = i, !.z_t = z]
       /\ stepOut' = LSTMEStep(i, z, stepIn.y_p, stepIn.c_p, stepIn.W_re)
  /\ stepPc' = "stepped"
  /\ UNCHANGED <<layerVars, scanVars, paramVars, callVars>>

StepNext == CallLSTMEStep

SpecStep == StepInit /\ [][StepNext]_vars

\* C1: for every batch row whose index flag is 0, both carried states the
\* generic LSTM step returns (output y and cell c) equal the previous values.
C1_MaskHoldsBothStates ==
  stepPc = "stepped" =>
    \A b \in 1..NBatch :
      stepIn.i_t[b] = 0 =>
        /\ stepOut.y[b] = stepIn.y_p[b]
        /\ stepOut.c[b] = stepIn.c_p[b]

\* what the step does on a masked row: the cell state is held, the output zeroed
C1_MaskHoldsCell ==
  stepPc = "stepped" =>
    \A b \in 1..NBatch :
      stepIn.i_t[b] = 0 =>
        /\ stepOut.c[b] = stepIn.c_p[b]
        /\ stepOut.y[b] = Zeros(NUnits)

(***************************************************************************)
(* Unit: the dimension contract of each recurrent unit and the arguments   *)
(* its step function takes.                                                *)
(***************************************************************************)
\* Unit.__init__ as called by VANILLA, LSTME, LSTMP, LSTMC, GRU and SRU
UnitDims(unit, n) ==
  CASE unit = "vanilla" -> [n_units |-> n, n_in |-> n, n_out |-> n, n_re |-> n, n_act |-> 1]
    [] unit \in {"lstme", "lstmp", "lstmc"} ->
         [n_units |-> n, n_in |-> 4 * n, n_out |-> n, n_re |-> 4 * n, n_act |-> 2]
    [] unit = "gru" -> [n_units |-> n, n_in |-> 3 * n, n_out |-> n, n_re |-> 2 * n, n_act |-> 1]
    [] unit = "sru" -> [n_units |-> n, n_in |-> 3 * n, n_out |-> n, n_re |-> 3 * n, n_act |-> 1]

\* positional parameters of step after self: (i_t, x_t, z_t, z_p, h_p) or
\* (i_t, x_t, z_t, y_p, c_p, *other_args)
StepParams(unit) == 5

\* whether step takes *other_args
StepVarArgs(unit) == unit = "lstme"

(***************************************************************************)
(* The recurrent transform is outside these sources: a mapping from        *)
(* state-variable names to tensors that it hands out and takes back in     *)
(* the order of the sorted names.  A state tensor is a record that keeps   *)
(* the name it was created for and counts the steps it went through.       *)
(***************************************************************************)
\* the names a transform may use, in sorted (ASCII) order
AllNames == <<"K_p", "att_w", "loc">>

NameSets == SUBSET {AllNames[k] : k \in 1..Len(AllNames)}

RECURSIVE SortedFrom(_, _)
SortedFrom(names, k) ==
  IF k > Len(AllNames) THEN <<>>
  ELSE (IF AllNames[k] \in names THEN <<AllNames[k]>> ELSE <<>>) \o SortedFrom(names, k + 1)

\* sorted(state_vars.keys())
SortedNames(names) == SortedFrom(names, 1)

\* the names v with v.startswith('att_'), and those with v.startswith('K_')
AttNames == {"att_w"}

KNames == {"K_p"}

\* get_sorted_state_vars_initial(): the initial tensors in sorted-name order
SortedStateVarsInitial(names) ==
  [k \in 1..Len(SortedNames(names)) |-> [name |-> SortedNames(names)[k], v |-> 0]]

\* set_sorted_state_vars(state_vars): the k-th sorted name is bound to the k-th tensor
SetSortedStateVars(names, state_vars) ==
  [nm \in names |->
     state_vars[CHOOSE k \in 1..Len(SortedNames(names)) : SortedNames(names)[k] = nm]]

\* recurrent_transform.step(y_p) returns the bias z_r and r_updates, the next
\* tensor of every state variable
TransformUpdates(names, bound) ==
  [nm \in names |-> [name |-> bound[nm].name, v |-> bound[nm].v + 1]]

\* the biases a transform may contribute: none, or one unit on every
\* pre-activation; a layer without a transform has no names and no bias
TransformBiases(names) == IF names = {} THEN {0} ELSE {0, Scale}

\* the additive bias z_r of recurrent_transform.step, of the shape of z_t
TransformBias(z_t, z_r) == [b \in 1..Len(z_t) |-> [k \in 1..Len(z_t[b]) |-> z_r]]

MatAdd(A, B) == [b \in 1..Len(A) |-> VecAdd(A[b], B[b])]

(***************************************************************************)
(* The step functions as theano.scan calls them: args is the list of       *)
(* previous outputs (the outputs_info taps), the result the list of next   *)
(* outputs.                                                                *)
(***************************************************************************)
\* VANILLA.step(i_t, x_t, z_t, z_p, h_p)
VanillaStep(item, args) ==
  <<[b \in 1..Len(item.z) |-> VecTanh(VecAdd(item.z[b], args[1][b]))]>>

\* the next outputs of the step: (y_t, c_t) + tuple(other_outputs)
StepOutputs(yc, other_outputs) == <<yc.y, yc.c>> \o other_outputs

\* the mutant appends the updates in the reverse of the sorted order
OtherOutputsReversed(sorted, r_updates) ==
  [k \in 1..Len(sorted) |-> r_updates[sorted[Len(sorted) + 1 - k]]]

\* for v in get_sorted_state_vars(): other_outputs += [r_updates[v]]
OtherOutputs(sorted, r_updates) == [k \in 1..Len(sorted) |-> r_updates[sorted[k]]]

\* state_vars = other_args[:len(state_vars)], bound by set_sorted_state_vars and
\* updated by the transform's step
StateUpdates(names, other_args) ==
  TransformUpdates(names,
    SetSortedStateVars(names, Slice(other_args, 0, Cardinality(names))))

\* LSTME.step(i_t, x_t, z_t, y_p, c_p, *other_args) with self.recurrent_transform
LSTMEStepArgs(item, args, W_re, names, z_r) ==
  StepOutputs(
    LSTMEStep(item.i, MatAdd(item.z, TransformBias(item.z, z_r)), args[1], args[2], W_re),
    OtherOutputs(SortedNames(names), StateUpdates(names, Slice(args, 2, Len(args)))))

UnitStep(unit, item, args, W_re, names, z_r) ==
  IF unit = "vanilla" THEN VanillaStep(item, args)
  ELSE LSTMEStepArgs(item, args, W_re, names, z_r)

\* the number of outputs a step returns for a call with these previous outputs
StepReturns(unit, names) == IF unit = "lstme" THEN 2 + Cardinality(names) ELSE 1

(***************************************************************************)
(* Unit.scan: theano.scan over the sequences [i, xc, z].  The step is      *)
(* called with the three sequence slices and the previous outputs; the     *)
(* outputs are stacked in the order of the iterations.  Every item of the  *)
(* sequences carries the timestep t it was taken from, and every output    *)
(* the timestep src that was consumed when it was computed.                *)
(***************************************************************************)
Reverse(seq) == [k \in 1..Len(seq) |-> seq[Len(seq) + 1 - k]]

RECURSIVE ScanLoop(_, _, _, _, _, _, _)
RECURSIVE ScanCons(_, _, _, _, _, _, _)
\* the output nxt of iteration k, followed by the later iterations
ScanCons(unit, items, k, nxt, W_re, names, z_r) ==
  <<[src |-> items[k].t, st |-> nxt]>>
    \o ScanLoop(unit, items, k + 1, nxt, W_re, names, z_r)

\* the iterations k.. of theano.scan; args are the previous outputs
ScanLoop(unit, items, k, args, W_re, names, z_r) ==
  IF k > Len(items) THEN <<>>
  ELSE ScanCons(unit, items, k, UnitStep(unit, items[k], args, W_re, names, z_r),
                W_re, names, z_r)

\* the outputs of theano.scan: one sequence for each of the n outputs_info
StackOutputs(run, n) ==
  [status |-> "ok",
   outputs |-> [j \in 1..n |-> [k \in 1..Len(run) |-> [src |-> run[k].src, v |-> run[k].st[j]]]],
   order |-> [k \in 1..Len(run) |-> run[k].src]]

\* whether a call step(i_t, x_t, z_t, *previous outputs) fits the signature of step
StepCallFits(unit, nargs) ==
  IF StepVarArgs(unit) THEN nargs >= StepParams(unit) ELSE nargs = StepParams(unit)

UnitScan(unit, items, outputs_info, W_re, names, z_r, go_backwards) ==
  IF ~StepCallFits(unit, 3 + Len(outputs_info))
  THEN [status |-> "TypeError", outputs |-> <<>>, order |-> <<>>]
  ELSE IF StepReturns(unit, names) # Len(outputs_info)
  THEN [status |-> "ValueError", outputs |-> <<>>, order |-> <<>>]
  ELSE StackOutputs(
         ScanLoop(unit, IF go_backwards THEN Reverse(items) ELSE items, 1,
                  outputs_info, W_re, names, z_r),
         Len(outputs_info))

(***************************************************************************)
(* RecurrentUnitLayer.__init__ from "scan over sequence" on.  The inputs   *)
(* of a construction:                                                      *)
(*   T          the time length of index and of the mapped input z         *)
(*   sampling, direction, unit                                             *)
(*   lens       the number of valid timesteps of every batch row           *)
(*   zpat       which mapped input z the sources produce                   *)
(*   enc        whether encoder layers give the initial state              *)
(*   names      the state-variable names of the recurrent transform        *)
(*   z_r        the bias the recurrent transform adds to a pre-activation  *)
(*   attention_store, attention_momentum, attention_align                  *)
(***************************************************************************)
\* x[s::n] of python
StrideCount(len, s, n) == IF s >= len THEN 0 ELSE ((len - 1 - s) \div n) + 1

\* the mutant takes the first items instead of every n-th
StrideFirst(x, s, n) == [k \in 1..StrideCount(Len(x), s, n) |-> x[k]]

Stride(x, s, n) == [k \in 1..StrideCount(Len(x), s, n) |-> x[s + (k - 1) * n + 1]]

\* T.set_subtensor(tot[s::n], act)
SetSubtensor(tot, s, n, act) ==
  [p \in 1..Len(tot) |->
     IF p - 1 >= s /\ (p - 1 - s) % n = 0 THEN act[((p - 1 - s) \div n) + 1] ELSE tot[p]]

\* self.index: row b is valid for its first lens[b] timesteps
IndexOf(in) ==
  [t \in 1..in.T |-> [t |-> t - 1, i |-> [b \in 1..NBatch |-> IF t <= in.lens[b] THEN 1 ELSE 0]]]

\* T.cast(index, floatX)
IndexF(i) == [b \in 1..Len(i) |-> i[b] * Scale]

\* z, the linearly mapped input of the sources: (time, batch, unit.n_in)
ZOf(in) ==
  LET n_in == UnitDims(in.unit, NUnits).n_in
  IN  [t \in 1..in.T |->
         [t |-> t - 1,
          z |-> [b \in 1..NBatch |->
                   [k \in 1..n_in |->
                      IF (t + b + ((k - 1) \div NUnits) + in.zpat) % 2 = 0
                      THEN 2 * Scale ELSE -Scale]]]]

\* the initial unit states: the encoders' last states, or zeros
InitialStates(in) ==
  LET d == UnitDims(in.unit, NUnits)
  IN  [a \in 1..d.n_act |->
         [b \in 1..NBatch |->
            [k \in 1..d.n_out |-> IF in.enc THEN (IF a = 1 THEN 2 ELSE -Scale) ELSE 0]]]

\* outputs_info: the n_act unit states, then the transform's initial states
OutputsInfo(in) == InitialStates(in) \o SortedStateVarsInitial(in.names)

\* self.aux = outputs[unit.n_act:]
AuxOf(outputs, n_act) == Slice(outputs, n_act, Len(outputs))

\* T.alloc(0, time, batch, n_out): no timestep was consumed for its entries
AllocZero(T, n_out) ==
  [t \in 1..T |-> [src |-> -1, v |-> [b \in 1..NBatch |-> Zeros(n_out)]]]

NoLayer == [status |-> "none"]

\* theano.scan zips the sequences: as many steps as the shortest has items
ScanItems(index, zs) ==
  [k \in 1..Min2(Len(index), Len(zs)) |->
     [t |-> zs[k].t, ti |-> index[k].t, i |-> IndexF(index[k].i), z |-> zs[k].z]]

\* what a pass handed to unit.scan and the order the scan consumed it in
CallOf(s, index, zs, order) ==
  [s |-> s,
   index_t |-> [k \in 1..Len(index) |-> index[k].t],
   z_t |-> [k \in 1..Len(zs) |-> zs[k].t],
   order |-> order]

\* if s == 0: totact = [T.alloc(...) for act in outputs]
ActBuffer(in, s, acc, n) ==
  IF s = 0 THEN [j \in 1..n |-> AllocZero(in.T, UnitDims(in.unit, NUnits).n_out)]
  ELSE acc.act

\* how often every time position of the buffers was written
WrittenCount(in, s, acc) == IF s = 0 THEN [t \in 1..in.T |-> 0] ELSE acc.written

\* the positions s::n of cnt counted once more
CountStride(cnt, s, n) ==
  [p \in 1..Len(cnt) |-> IF p - 1 >= s /\ (p - 1 - s) % n = 0 THEN cnt[p] + 1 ELSE cnt[p]]

\* sampling > 1: totact = [T.set_subtensor(tot[s::sampling], act) ...]
StoreSampled(in, s, acc, outputs, buf) ==
  [acc EXCEPT
     !.act = [j \in 1..Len(outputs) |-> SetSubtensor(buf[j], s, in.sampling, outputs[j])],
     !.written = CountStride(WrittenCount(in, s, acc), s, in.sampling)]

\* sampling = 1: self.act = outputs[:unit.n_act]; self.aux = outputs[unit.n_act:]
StoreDirect(in, acc, outputs, n_act) ==
  [acc EXCEPT
     !.act = Slice(outputs, 0, n_act),
     !.written = [t \in 1..in.T |-> 1],
     !.has_aux = acc.has_aux \/ Len(outputs) > n_act,
     !.aux = IF Len(outputs) > n_act THEN AuxOf(outputs, n_act) ELSE acc.aux]

StoreOutputs(in, s, acc, outputs) ==
  IF in.sampling > 1
  THEN StoreSampled(in, s, acc, outputs, ActBuffer(in, s, acc, Len(outputs)))
  ELSE StoreDirect(in, acc, outputs, UnitDims(in.unit, NUnits).n_act)

\* the loop "for s in xrange(sampling)" from pass s on
RECURSIVE SamplingLoop(_, _, _)
RECURSIVE AfterScan(_, _, _, _)
RECURSIVE SamplingPass(_, _, _, _, _)
\* the last logged call with the order the scan consumed the timesteps in
WithOrder(acc, order) == [acc EXCEPT !.calls[Len(acc.calls)].order = order]

\* the rest of pass s once unit.scan returned res
AfterScan(in, s, acc, res) ==
  IF res.status # "ok" THEN [WithOrder(acc, res.order) EXCEPT !.status = res.status]
  ELSE SamplingLoop(in, s + 1, StoreOutputs(in, s, WithOrder(acc, res.order), res.outputs))

\* pass s on index = self.index[s::sampling] and z[s::sampling]
SamplingPass(in, s, acc, index, zs) ==
  AfterScan(in, s,
    [acc EXCEPT !.outputs_info = OutputsInfo(in),
                !.calls = Append(@, CallOf(s, index, zs, <<>>))],
    UnitScan(in.unit, ScanItems(index, zs), OutputsInfo(in), in.W_re, in.names, in.z_r,
             in.direction = -1))

SamplingLoop(in, s, acc) ==
  IF s >= in.sampling \/ acc.status # "ok" THEN acc
  ELSE SamplingPass(in, s, acc, Stride(IndexOf(in), s, in.sampling),
                    Stride(ZOf(in), s, in.sampling))

\* x[::direction or 1]
DirectedOutput(act0, direction) == IF direction = -1 THEN Reverse(act0) ELSE act0

\* one entry of self.attention: aux[i][::direction], shifted by one frame
AttentionOf(seq, direction) ==
  Slice(DirectedOutput(seq, direction), 1, Len(seq))
    \o <<[src |-> -1, v |-> [name |-> "last", v |-> 0]]>>

\* the places i of enumerate(sorted(state_vars.keys())) whose name v is selected
RECURSIVE PickedFrom(_, _, _)
PickedFrom(sorted, k, sel) ==
  IF k > Len(sorted) THEN <<>>
  ELSE (IF sorted[k] \in sel THEN <<[i |-> k, name |-> sorted[k]]>> ELSE <<>>)
       \o PickedFrom(sorted, k + 1, sel)

\* self.attention = [self.aux[i][::direction] shifted for the names 'att_...']
StoredAttention(att, aux, direction) ==
  [k \in 1..Len(att) |-> [name |-> att[k].name, seq |-> AttentionOf(aux[att[k].i], direction)]]

\* the alignment reads self.aux[i] for the names 'K_...'
AlignBackpointers(bp, aux) ==
  [k \in 1..Len(bp) |-> [name |-> bp[k].name, seq |-> aux[bp[k].i]]]

\* the attributes of the layer after the sampling loop
LayerAttributes(in, loop) ==
  [status |-> loop.status, in |-> in, calls |-> loop.calls,
   outputs_info |-> loop.outputs_info, act |-> loop.act,
   written |-> loop.written, has_aux |-> loop.has_aux, aux |-> loop.aux,
   attention |-> <<>>, bp |-> <<>>, output |-> <<>>]

\* the code after the loop: attention, alignment, make_output; store is
\* attention_store = attention_store or attention_momentum
AfterLoop(in, base, att, bp, store) ==
  IF base.status # "ok" THEN base
  ELSE IF store /\ Len(att) > 0 /\ ~base.has_aux
  THEN [base EXCEPT !.status = "AttributeError"]
  ELSE IF in.attention_align /\ Len(bp) > 0 /\ ~base.has_aux
  THEN [base EXCEPT !.status = "AttributeError"]
  ELSE [base EXCEPT
          !.attention = IF store THEN StoredAttention(att, base.aux, in.direction) ELSE <<>>,
          !.bp = IF in.attention_align THEN AlignBackpointers(bp, base.aux) ELSE <<>>,
          !.output = DirectedOutput(base.act[1], in.direction)]

\* the accumulator of the sampling loop before the first pass
LoopStart ==
  [status |-> "ok", calls |-> <<>>, outputs_info |-> <<>>, act |-> <<>>,
   written |-> <<>>, has_aux |-> FALSE, aux |-> <<>>]

\* the whole construction
RecurrentUnitLayer(in) ==
  AfterLoop(in, LayerAttributes(in, SamplingLoop(in, 0, LoopStart)),
            PickedFrom(SortedNames(in.names), 1, AttNames),
            PickedFrom(SortedNames(in.names), 1, KNames),
            in.attention_store \/ in.attention_momentum # "")

(***************************************************************************)
(* The layer model: one layer is constructed from inputs drawn from small  *)
(* sets.                                                                   *)
(***************************************************************************)
LayerUnits == {"vanilla", "lstme"}

AttentionFlags ==
  {[store |-> FALSE, momentum |-> "", align |-> FALSE],
   [store |-> FALSE, momentum |-> "none", align |-> FALSE],
   [store |-> TRUE, momentum |-> "", align |-> TRUE]}

\* the valid lengths of the rows of a batch of time length T: the longest is T
RowLens(T) == {l \in [1..NBatch -> 0..T] : \E b \in 1..NBatch : l[b] = T}

LayerWre(unit) ==
  LET d == UnitDims(unit, NUnits)
  IN  [r \in 1..d.n_out |-> [k \in 1..d.n_re |-> IF k % 2 = 0 THEN Scale ELSE 0]]

LayerInit ==
  /\ layer = NoLayer
  /\ layerPc = "new"
  /\ stepIn = [i_t |-> <<>>]
  /\ stepOut = [y |-> <<>>]
  /\ stepPc = "off"
  /\ scan = [status |-> "none"]
  /\ scanPc = "off"
  /\ pm = [status |-> "none"]
  /\ pmPc = "off"
  /\ call = [op |-> "none"]
  /\ callPc = "off"

Construct ==
  /\ layerPc = "new"
  /\ \E T \in 1..MaxTime, N \in 1..MaxSampling, dir \in {1, -1}, unit \in LayerUnits,
        zpat \in {0, 1}, enc \in BOOLEAN, names \in NameSets, fl \in AttentionFlags :
       \E lens \in RowLens(T), z_r \in TransformBiases(names) :
         layer' = RecurrentUnitLayer(
                    [T |-> T, sampling |-> N, direction |-> dir, unit |-> unit, lens |-> lens,
                     zpat |-> zpat, enc |-> enc, names |-> names, z_r |-> z_r,
                     W_re |-> LayerWre(unit),
                     attention_store |-> fl.store, attention_momentum |-> fl.momentum,
                     attention_align |-> fl.align])
  /\ layerPc' = "constructed"
  /\ UNCHANGED <<stepVars, scanVars, paramVars, callVars>>

LayerNext == Construct

SpecLayer == LayerInit /\ [][LayerNext]_vars

LayerDone == layerPc = "constructed"

\* the sampling loop ran to its end (a later failure does not undo it)
LoopDone == LayerDone /\ layer.status \in {"ok", "AttributeError"}

\* the timesteps t of 0..T-1 with t mod n = s, ascending
Residue(T, s, n) == Stride([t \in 1..T |-> t - 1], s, n)

\* C2: every pass consumes its timesteps once each, ascending for direction 1
\* and descending for direction -1, and the layer output at time position t is
\* the state computed when the recurrence consumed input timestep t.
C2_TimeAligned ==
  (LayerDone /\ layer.status = "ok") =>
    /\ \A c \in 1..Len(layer.calls) :
         layer.calls[c].order =
           (IF layer.in.direction = -1 THEN Reverse(layer.calls[c].z_t) ELSE layer.calls[c].z_t)
    /\ \A t \in 1..layer.in.T : layer.output[t].src = t - 1

\* where the alignment does hold: without sampling, or forwards, or when the
\* last timestep falls on the first stride
C2_AlignedCases ==
  (LayerDone /\ layer.status = "ok"
     /\ (layer.in.sampling = 1 \/ layer.in.direction = 1
           \/ (layer.in.T - 1) % layer.in.sampling = 0)) =>
    \A t \in 1..layer.in.T : layer.output[t].src = t - 1

\* C3: with sampling = N the executor is invoked N times, invocation s gets the
\* index rows and mapped inputs of the timesteps t with t mod N = s, its results
\* go to those positions of the full-length buffer, and in the end every
\* position has been written exactly once.
C3_MultiRate ==
  LoopDone =>
    /\ Len(layer.calls) = layer.in.sampling
    /\ \A c \in 1..Len(layer.calls) :
         /\ layer.calls[c].s = c - 1
         /\ layer.calls[c].index_t = Residue(layer.in.T, c - 1, layer.in.sampling)
         /\ layer.calls[c].z_t = Residue(layer.in.T, c - 1, layer.in.sampling)
    /\ \A j \in 1..Len(layer.act) :
         /\ Len(layer.act[j]) = layer.in.T
         /\ \A p \in 1..layer.in.T :
              /\ layer.act[j][p].src # -1
              /\ layer.act[j][p].src % layer.in.sampling = (p - 1) % layer.in.sampling
    /\ \A p \in 1..layer.in.T : layer.written[p] = 1

C3_Witness ==
  /\ LoopDone
  /\ layer.in.sampling = 3
  /\ layer.in.T = 3
  /\ layer.in.direction = -1
  /\ Len(layer.calls) = 3
  /\ layer.written = <<1, 1, 1>>

\* C4: the transform's state is threaded in sorted-name order everywhere: the
\* initial states after the n_act unit states of outputs_info, the tensors the
\* step binds and the updates it returns (so sequence i of aux only ever holds
\* the tensors of the i-th sorted name), and the sequences that attention-store
\* and alignment pick.
C4_SortedStateOrder ==
  LoopDone =>
    LET sorted == SortedNames(layer.in.names)
        n_act == UnitDims(layer.in.unit, NUnits).n_act
    IN  /\ Len(layer.outputs_info) = n_act + Len(sorted)
        /\ \A k \in 1..Len(sorted) : layer.outputs_info[n_act + k].name = sorted[k]
        /\ layer.has_aux =>
             /\ Len(layer.aux) = Len(sorted)
             /\ \A k \in 1..Len(sorted) : \A e \in 1..Len(layer.aux[k]) :
                  layer.aux[k][e].v.name = sorted[k]
        /\ \A a \in 1..Len(layer.attention) : \A e \in 1..Len(layer.attention[a].seq) :
             layer.attention[a].seq[e].src # -1 =>
               layer.attention[a].seq[e].v.name = layer.attention[a].name
        /\ \A a \in 1..Len(layer.bp) : \A e \in 1..Len(layer.bp[a].seq) :
             layer.bp[a].seq[e].v.name = layer.bp[a].name

C4_Witness ==
  /\ LayerDone
  /\ layer.status = "ok"
  /\ Cardinality(layer.in.names) = 3
  /\ layer.in.T = 3
  /\ Len(layer.aux) = 3
  /\ Len(layer.attention) = 1
  /\ Len(layer.bp) = 1
  /\ layer.aux[2][3].v = [name |-> "att_w", v |-> 3]

\* h_t = tanh(z_t + h_{t-1}) with h_{-1} = 0, for t = 1..T (1-based)
RECURSIVE VanillaRef(_, _)
VanillaRef(z, t) ==
  LET h_p == IF t = 1 THEN [b \in 1..NBatch |-> Zeros(NUnits)] ELSE VanillaRef(z, t - 1)
  IN  [b \in 1..NBatch |-> [k \in 1..NUnits |-> Tanh(z[t].z[b][k] + h_p[b][k])]]

\* C6: a vanilla layer with an all-ones index, zero initial state and forward
\* direction is constructed without failure and its output is h_0 = tanh(z_0),
\* h_t = tanh(z_t + h_{t-1}).
C6_VanillaRecurrence ==
  (/\ LayerDone
   /\ layer.in.unit = "vanilla"
   /\ layer.in.direction = 1
   /\ layer.in.sampling = 1
   /\ ~layer.in.enc
   /\ layer.in.names = {}
   /\ \A b \in 1..NBatch : layer.in.lens[b] = layer.in.T) =>
    /\ layer.status = "ok"
    /\ \A t \in 1..layer.in.T : layer.output[t].v = VanillaRef(ZOf(layer.in), t)

(***************************************************************************)
(* The fused LSTM units.  Their kernels are outside these sources: they    *)
(* are taken to compute the recursion of the generic step on the           *)
(* sequences in the order given, LSTMOpInstance without the recurrent      *)
(* contribution of an initial output (its caller adds that to z), and      *)
(* to return the outputs Y, the gates H (left out here) and the final      *)
(* cell state d.                                                           *)
(***************************************************************************)
RECURSIVE LSTMOpLoop(_, _, _, _, _)
RECURSIVE LSTMOpCons(_, _, _, _)
\* the states yc of step k, followed by the later steps
LSTMOpCons(items, k, yc, W_re) ==
  <<[src |-> items[k].t, y |-> yc.y, c |-> yc.c]>> \o LSTMOpLoop(items, k + 1, yc.y, yc.c, W_re)

LSTMOpLoop(items, k, y_p, c_p, W_re) ==
  IF k > Len(items) THEN <<>>
  ELSE LSTMOpCons(items, k, LSTMEStep(items[k].i, items[k].z, y_p, c_p, W_re), W_re)

\* the results Y and d of the op for the steps run
LSTMOpResult(run, c0) ==
  [Y |-> [k \in 1..Len(run) |-> [src |-> run[k].src, v |-> run[k].y]],
   d |-> IF Len(run) = 0 THEN [src |-> -1, v |-> c0]
         ELSE [src |-> run[Len(run)].src, v |-> run[Len(run)].c]]

\* LSTMOpInstance(Z, W_re, c, i)
LSTMOpInstance(items, W_re, c0) ==
  LSTMOpResult(LSTMOpLoop(items, 1, [b \in 1..Len(c0) |-> Zeros(Len(c0[b]))], c0, W_re), c0)

\* the results Y, d and the state sequences of the custom op for the steps run
LSTMCustomResult(run, c0, n) ==
  [Y |-> [k \in 1..Len(run) |-> [src |-> run[k].src, v |-> run[k].st[1]]],
   d |-> IF Len(run) = 0 THEN [src |-> -1, v |-> c0]
         ELSE [src |-> run[Len(run)].src, v |-> run[Len(run)].st[2]],
   state_seqs |-> [j \in 1..n |->
                     [k \in 1..Len(run) |-> [src |-> run[k].src, v |-> run[k].st[2 + j]]]]]

\* the op of OpLSTMCustom.register_func(transform)(Z, c, y0, i, W_re, *vars)
LSTMCustomOp(items, c0, y0, W_re, names, z_r, initial_state_vars) ==
  LSTMCustomResult(
    ScanLoop("lstme", items, 1, <<y0, c0>> \o initial_state_vars, W_re, names, z_r),
    c0, Len(initial_state_vars))

\* [ result[0], result[2].dimshuffle('x',0,1) ]
FusedResults(result) == <<result.Y, <<result.d>>>>

\* z with the recurrent contribution of the initial output added at position pos
IncSubtensor(z, pos, y0, W_re) == [z EXCEPT ![pos].z = MatAdd(@, Dot(y0, W_re))]

\* the mutant adds the initial output's contribution to z[0] in both directions
LSTMPScanFirst(items, outputs_info, W_re, go_backwards) ==
  FusedResults(
    LSTMOpInstance(
      IF go_backwards THEN Reverse(IncSubtensor(items, 1, outputs_info[1], W_re))
      ELSE IncSubtensor(items, 1, outputs_info[1], W_re),
      W_re, outputs_info[2]))

\* LSTMP.scan: z = T.inc_subtensor(z[-1 if go_backwards else 0], T.dot(y0, W_re))
LSTMPScan(items, outputs_info, W_re, go_backwards) ==
  FusedResults(
    LSTMOpInstance(
      IF go_backwards THEN Reverse(IncSubtensor(items, Len(items), outputs_info[1], W_re))
      ELSE IncSubtensor(items, 1, outputs_info[1], W_re),
      W_re, outputs_info[2]))

\* [ op_res[0], op_res[2].dimshuffle('x',0,1) ] + op_res[3:]
CustomResults(op_res) == <<op_res.Y, <<op_res.d>>>> \o op_res.state_seqs

\* LSTMC.scan
LSTMCScan(items, outputs_info, W_re, names, z_r, go_backwards) ==
  CustomResults(
    LSTMCustomOp(IF go_backwards THEN Reverse(items) ELSE items,
                 outputs_info[2], outputs_info[1], W_re, names, z_r,
                 SortedStateVarsInitial(names)))

(***************************************************************************)
(* The scan model: the generic scan over LSTME.step, LSTMP.scan and        *)
(* LSTMC.scan are applied to one input drawn from small sets.              *)
(***************************************************************************)
IndexMasks(T) == [1..T -> [1..NBatch -> {0, 1}]]

ScanInit ==
  /\ scan = [status |-> "none"]
  /\ scanPc = "ready"
  /\ stepIn = [i_t |-> <<>>]
  /\ stepOut = [y |-> <<>>]
  /\ stepPc = "off"
  /\ layer = NoLayer
  /\ layerPc = "off"
  /\ pm = [status |-> "none"]
  /\ pmPc = "off"
  /\ call = [op |-> "none"]
  /\ callPc = "off"

\* the sequences [i, xc, z] of a scan over all T timesteps
ScanSequences(T, mask, zs) ==
  [t \in 1..T |-> [t |-> t - 1, ti |-> t - 1, i |-> IndexF(mask[t]), z |-> zs[t].z]]

\* the three scans on the same sequences and initial states, and the generic
\* scan of a layer that has no recurrent transform (plain)
ScanResults(in, items, outputs_info) ==
  [status |-> "ok", T |-> in.T, go_backwards |-> in.go_backwards, mask |-> in.mask,
   names |-> in.names, z_r |-> in.z_r, enc |-> in.enc, W_re |-> in.W_re,
   generic |-> UnitScan("lstme", items, outputs_info, in.W_re, in.names, in.z_r,
                        in.go_backwards).outputs,
   plain |-> UnitScan("lstme", items, Slice(outputs_info, 0, 2), in.W_re, {}, 0,
                      in.go_backwards).outputs,
   lstmp |-> LSTMPScan(items, outputs_info, in.W_re, in.go_backwards),
   lstmc |-> LSTMCScan(items, outputs_info, in.W_re, in.names, in.z_r, in.go_backwards)]

ScansOf(in) == ScanResults(in, ScanSequences(in.T, in.mask, ZOf(in)), OutputsInfo(in))

RunScans ==
  /\ scanPc = "ready"
  /\ \E T \in 1..MaxTime, gb \in BOOLEAN, zpat \in {0, 1}, enc \in BOOLEAN,
        W \in {LayerWre("lstme"), [r \in 1..NUnits |-> Zeros(4 * NUnits)]},
        names \in {{}, {"K_p", "att_w"}} :
       \E mask \in IndexMasks(T), z_r \in TransformBiases(names) :
         scan' = ScansOf([T |-> T, unit |-> "lstme", zpat |-> zpat, enc |-> enc,
                          names |-> names, z_r |-> z_r, go_backwards |-> gb,
                          mask |-> mask, W_re |-> W])
  /\ scanPc' = "done"
  /\ UNCHANGED <<stepVars, layerVars, paramVars, callVars>>

ScanNext == RunScans

SpecScan == ScanInit /\ [][ScanNext]_vars

C5_PlainWitness ==
  /\ scanPc = "done"
  /\ scan.T = 3
  /\ scan.go_backwards
  /\ scan.enc
  /\ scan.W_re = LayerWre("lstme")
  /\ scan.mask = <<<<1, 1>>, <<1, 0>>, <<0, 0>>>>
  /\ scan.names = {}
  /\ scan.lstmp[1] = scan.generic[1]
  /\ scan.lstmp[2] = <<scan.generic[2][3]>>
  /\ \E t \in 1..3 : scan.generic[2][t] # scan.generic[2][3]

\* with a transform whose bias is not zero, the output sequence of LSTMP.scan
\* differs from the generic one unless the index masks every row at every
\* timestep (all outputs are then zero)
C5_TransformIgnored ==
  (scanPc = "done" /\ scan.z_r # 0 /\ scan.lstmp[1] = scan.generic[1]) =>
    \A t \in 1..scan.T : \A b \in 1..NBatch : scan.mask[t][b] = 0


(***************************************************************************)
(* The parameter container.  A network holds shared tensors in a heap: a   *)
(* tensor is its place in the heap, and every layer refers to its          *)
(* parameters by place, so that two layers that alias a parameter refer    *)
(* to the same place.  A tensor has a name, a shape and the values of its  *)
(* entries in row-major order.  The first places hold the biases of two    *)
(* other layers of the network, "A" and "C"; the layer "B" is constructed  *)
(* next to them.                                                           *)
(***************************************************************************)
\* self.name of the layer whose parameters are modelled
LayerName == "B"

\* the parameters the other layers own, with the values their training left
ForeignTensors ==
  <<[name |-> "b_A", shape |-> <<NUnits>>, val |-> [k \in 1..NUnits |-> 3 * Scale]],
    [name |-> "b_C", shape |-> <<NUnits>>, val |-> [k \in 1..NUnits |-> 5 * Scale]]>>

ForeignIds == 1..Len(ForeignTensors)

\* the tensor network.get_layer_param yields for the names it intercepts
NetSubstitute == 1

\* the tensor the layer's substitute_param_expr yields for the names it intercepts
ExprSubstitute == 2

\* the largest number of add_param calls after the construction
MaxAdds == 2

\* values that numpy.isnan and numpy.isinf recognise
NaN == 9998

Inf == 9999

\* numpy.prod(shape) for a shape of one or two axes
Size(shape) == IF Len(shape) = 1 THEN shape[1] ELSE shape[1] * shape[2]

\* self.shared(value, name): the new tensor takes the next place of the heap
Shared(st, name, shape, val) ==
  [st EXCEPT !.heap = Append(@, [name |-> name, shape |-> shape, val |-> val])]

\* the name add_param settles on: the given one, else the tensor's, else
\* "param_%d" % len(self.params)
ParamName(st, param, name) ==
  IF name # "" THEN name
  ELSE IF st.heap[param].name # "" THEN st.heap[param].name
  ELSE "param_" \o ToString(Cardinality(DOMAIN st.params))

\* self.params[name] = param; owned lists every registration that was made
Register(st, param, name) ==
  [st EXCEPT
     !.params = [q \in (DOMAIN st.params) \cup {name} |->
                   IF q = name THEN param ELSE st.params[q]],
     !.owned = Append(@, [name |-> name, tensor |-> param])]

\* the record of a call of add_param: what it was given and what it returned,
\* whether the layer's expression was evaluated, and the params before the call
Returned(st, before, name, given, returned, expr_asked, registered) ==
  [st EXCEPT !.last = [called |-> TRUE, name |-> name, given |-> given,
                       returned |-> returned, expr_asked |-> expr_asked,
                       registered |-> registered, before |-> before]]

\* the mutant registers the tensor before it asks for a substitute
AddParamRegisterFirst(st, param, name) ==
  IF name \in st.netNames
  THEN Returned(Register(st, param, name), st.params, name, param, NetSubstitute, FALSE, FALSE)
  ELSE IF name \in st.exprNames
  THEN Returned(Register(st, param, name), st.params, name, param, ExprSubstitute, TRUE, FALSE)
  ELSE Returned(Register(st, param, name), st.params, name, param, param,
                st.exprNames # {}, TRUE)

\* add_param once the name is settled: the network's substitute, else the
\* substitute of the layer's expression, else the tensor is registered
AddParamNamed(st, param, name) ==
  IF name \in st.netNames
  THEN Returned(st, st.params, name, param, NetSubstitute, FALSE, FALSE)
  ELSE IF name \in st.exprNames
  THEN Returned(st, st.params, name, param, ExprSubstitute, TRUE, FALSE)
  ELSE Returned(Register(st, param, name), st.params, name, param, param,
                st.exprNames # {}, TRUE)

\* Container.add_param(param, name)
ContainerAddParam(st, param, name) == AddParamNamed(st, param, ParamName(st, param, name))

\* Layer.add_param(param, name): the regularisation terms it adds to
\* self.constraints read the returned tensor and write no parameter
LayerAddParam(st, param, name) == ContainerAddParam(st, param, name)

\* self.add_param(t, name) for the tensor t that was created last
AddNewParam(st, name) == LayerAddParam(st, Len(st.heap), name)

\* create_bias(n) with bias_init "zeros()" and depth 1
CreateBias(st, n) == Shared(st, "b_" \o LayerName, <<n>>, Zeros(n))

\* self.b = the tensor add_param returned
SetB(st) == [st EXCEPT !.b = st.last.returned]

\* Layer.__init__: self.b = self.add_param(self.create_bias(n_out), 'b_%s' % self.name),
\* or the constant numpy.float32(0), which is no tensor (place 0)
LayerBias(st, n_out) ==
  IF st.with_bias THEN SetB(AddNewParam(CreateBias(st, n_out), "b_" \o LayerName))
  ELSE [st EXCEPT !.b = 0]

\* the values create_random_uniform_weights draws for n entries
RandomWeights(n) == [k \in 1..n |-> IF k % 2 = 0 THEN 1 ELSE -1]

\* W_re = self.add_param(self.create_random_uniform_weights(n_out, n_re, name="W_re_..."))
AddWre(st, d) ==
  IF d.n_re > 0
  THEN AddNewParam(Shared(st, "W_re_" \o LayerName, <<d.n_out, d.n_re>>,
                          RandomWeights(d.n_out * d.n_re)), "")
  ELSE st

\* the mutant shifts the first gate's entries
BiasInitValueFirstGate(d, shift) ==
  [k \in 1..d.n_in |-> IF shift # 0 /\ k <= d.n_units THEN shift ELSE 0]

\* bias_init_value: zeros((unit.n_in,)) with the forget gate's entries shifted
BiasInitValue(d, shift) ==
  [k \in 1..d.n_in |-> IF shift # 0 /\ k > d.n_units /\ k <= 2 * d.n_units THEN shift ELSE 0]

\* self.b.set_value(bias_init_value), after the assertion on the gates' layout
SetBias(st, d) ==
  IF st.status # "ok" THEN st
  ELSE IF st.forget_shift # 0 /\ d.n_units * 4 # d.n_in
  THEN [st EXCEPT !.status = "AssertionError"]
  ELSE IF st.b = 0 THEN [st EXCEPT !.status = "AttributeError"]
  ELSE [st EXCEPT !.heap[st.b].shape = <<d.n_in>>,
                  !.heap[st.b].val = BiasInitValue(d, st.forget_shift)]

\* for s in self.sources: self.W_in.append(self.add_param(W)) with W named
\* "W_in_%s_%s" % (s.name, self.name)
RECURSIVE AddWin(_, _, _)
AddWin(st, d, k) ==
  IF k > Len(st.sources) \/ st.status # "ok" THEN st
  ELSE AddWin(
         AddNewParam(Shared(st, "W_in_" \o st.sources[k] \o "_" \o LayerName,
                            <<NUnits, d.n_in>>, RandomWeights(NUnits * d.n_in)), ""),
         d, k + 1)

\* unit = eval(unit.upper())(**self.attrs): GRU creates W_reset, which it keeps
\* in its own params
InstantiateUnit(st, d) ==
  IF st.unit = "gru"
  THEN [Shared(st, "W_reset", <<d.n_units, d.n_units>>, RandomWeights(d.n_units * d.n_units))
          EXCEPT !.unit_params = [n \in {"W_reset"} |-> Len(st.heap) + 1]]
  ELSE st

\* RecurrentUnitLayer.__init__ from the unit's instantiation to the forward
\* weights
RecurrentParams(st, d) == AddWin(SetBias(AddWre(InstantiateUnit(st, d), d), d), d, 1)

\* self.params.update(unit.params)
UpdateParams(st) ==
  [st EXCEPT !.params = [q \in (DOMAIN st.params) \cup (DOMAIN st.unit_params) |->
                           IF q \in DOMAIN st.unit_params THEN st.unit_params[q]
                           ELSE st.params[q]]]

\* RecurrentUnitLayer.__init__ from the scan to its end: unit.scan calls step
\* with the three sequences and the unit.n_act initial states (no recurrent
\* transform), and the unit's parameters are merged last
RecurrentFinish(st, d) ==
  IF ~StepCallFits(st.unit, 3 + d.n_act) THEN [st EXCEPT !.status = "TypeError"]
  ELSE UpdateParams(st)

(***************************************************************************)
(* Container.load.  The store is an h5py file: it has a group for the      *)
(* layer or not, and the group holds datasets by name.  The group's class  *)
(* attribute is the layer's class, as save writes it.  A dataset is drawn  *)
(* by its quality: "good" has the shape of the declared parameter and      *)
(* finite values, "shape" another shape, "nan" and "inf" one such entry.   *)
(***************************************************************************)
\* the dataset names a store may hold, in the order h5py iterates a group
StoreOrder == <<"W_re_B", "b_B", "zz_B">>

StoreNames == {StoreOrder[k] : k \in 1..Len(StoreOrder)}

\* every dataset name a group of the layer may hold, in the order h5py iterates
\* a group (ascending by name)
GroupOrder ==
  <<"W", "W_in_A_B", "W_re_B", "W_reset", "b_B">>
    \o [k \in 1..(4 + MaxAdds) |-> "param_" \o ToString(k - 1)]
    \o <<"zz_B">>

Qualities(name) ==
  IF name = "b_B" THEN {"good", "shape", "nan", "inf"}
  ELSE IF name = "W_re_B" THEN {"good", "shape"}
  ELSE {"good"}

\* the datasets of a group: a quality for each name the group holds
StoreQualities ==
  UNION {{q \in [S -> {"good", "shape", "nan", "inf"}] : \A n \in S : q[n] \in Qualities(n)} :
         S \in SUBSET StoreNames}

\* the shape of the parameter declared under the name, (1,) if there is none
DeclaredShape(st, name) ==
  IF name \in DOMAIN st.params THEN st.heap[st.params[name]].shape ELSE <<1>>

StoredShape(shape, quality) ==
  IF quality = "shape" THEN <<shape[1] + 1>> \o Tail(shape) ELSE shape

StoredValues(n, quality) ==
  [k \in 1..n |-> IF k = 1 /\ quality = "nan" THEN NaN
                  ELSE IF k = 1 /\ quality = "inf" THEN Inf
                  ELSE 7 * Scale]

Dataset(shape, quality) == [shape |-> shape, val |-> StoredValues(Size(shape), quality)]

\* the store drawn for the layer in state st
StoreOf(st, has_group, q) ==
  [has_group |-> has_group,
   entries |-> [n \in DOMAIN q |-> Dataset(StoredShape(DeclaredShape(st, n), q[n]), q[n])]]

\* numpy.isinf(array).any() or numpy.isnan(array).any()
AnyInfOrNaN(array) == \E k \in 1..Len(array) : array[k] \in {NaN, Inf}

\* the mutant fails on a dataset whose name the layer does not declare
LoadEntryStrict(st, grp, p) ==
  IF p \notin DOMAIN grp THEN st
  ELSE IF p \notin DOMAIN st.params THEN [st EXCEPT !.loaded.status = "KeyError"]
  ELSE IF st.heap[st.params[p]].shape # grp[p].shape
  THEN [st EXCEPT !.loaded.status = "AssertionError"]
  ELSE IF AnyInfOrNaN(grp[p].val) THEN [st EXCEPT !.loaded.status = "AssertionError"]
  ELSE [st EXCEPT !.heap[st.params[p]].val = grp[p].val]

\* the mutant writes the dataset before it checks it
LoadEntryWriteFirst(st, grp, p) ==
  IF p \notin DOMAIN grp THEN st
  ELSE IF p \notin DOMAIN st.params
  THEN [st EXCEPT !.loaded.warnings = @ \cup {<<"unable to match parameter", p>>}]
  ELSE IF st.heap[st.params[p]].shape # grp[p].shape \/ AnyInfOrNaN(grp[p].val)
  THEN [st EXCEPT !.heap[st.params[p]].val = grp[p].val,
                  !.heap[st.params[p]].shape = grp[p].shape,
                  !.loaded.status = "AssertionError"]
  ELSE [st EXCEPT !.heap[st.params[p]].val = grp[p].val]

\* the body of "for p in grp" for the name p, if the group holds it
LoadEntry(st, grp, p) ==
  IF p \notin DOMAIN grp THEN st
  ELSE IF p \notin DOMAIN st.params
  THEN [st EXCEPT !.loaded.warnings = @ \cup {<<"unable to match parameter", p>>}]
  ELSE IF st.heap[st.params[p]].shape # grp[p].shape
  THEN [st EXCEPT !.loaded.status = "AssertionError"]
  ELSE IF AnyInfOrNaN(grp[p].val) THEN [st EXCEPT !.loaded.status = "AssertionError"]
  ELSE [st EXCEPT !.heap[st.params[p]].val = grp[p].val]

\* "for p in grp" from the k-th name on; a failed assertion ends the load
RECURSIVE LoadLoop(_, _, _)
LoadLoop(st, grp, k) ==
  IF k > Len(GroupOrder) \/ st.loaded.status # "ok" THEN st
  ELSE LoadLoop(LoadEntry(st, grp, GroupOrder[k]), grp, k + 1)

\* "for p in self.params: if p not in grp": the warnings for the missing names
MissingWarnings(st, grp) ==
  {<<"unable to load parameter", p>> : p \in (DOMAIN st.params) \ (DOMAIN grp)}

\* the state load starts from: what it was given and what it found
LoadStart(st, store, warnings) ==
  [st EXCEPT !.loaded = [done |-> TRUE, status |-> "ok", warnings |-> warnings,
                         store |-> store, heap |-> st.heap, params |-> st.params]]

\* Container.load(head)
Load(st, store) ==
  IF ~store.has_group
  THEN LoadStart(st, store, {<<"unable to load parameters for layer", LayerName>>})
  ELSE LoadLoop(LoadStart(st, store, MissingWarnings(st, store.entries)), store.entries, 1)

(***************************************************************************)
(* Container.save.  The datasets are created with dtype 'f', single        *)
(* precision, whatever the precision floatX of the parameters is.  In a    *)
(* layer of double precision the odd numbers stand for the values that     *)
(* single precision cannot represent: the conversion rounds them to the    *)
(* even number below.  In a layer of single precision every value is       *)
(* representable and the conversion changes nothing.                       *)
(***************************************************************************)
\* the value a dataset of dtype 'f' holds for the value v of a parameter
Float32(floatX, v) ==
  IF floatX = "float32" \/ v \in {NaN, Inf} THEN v ELSE 2 * (v \div 2)

\* grp.create_dataset(p, value.shape, dtype='f'); dset[...] = value
SavedDataset(floatX, tensor) ==
  [shape |-> tensor.shape,
   val |-> [k \in 1..Len(tensor.val) |-> Float32(floatX, tensor.val[k])]]

\* Container.save(head) into an empty store: the store afterwards
Save(st) ==
  [has_group |-> TRUE,
   entries |-> [p \in DOMAIN st.params |-> SavedDataset(st.floatX, st.heap[st.params[p]])]]

\* the values another initialisation gives a parameter of n entries
FreshValues(n) == [k \in 1..n |-> 2]

\* a freshly initialised layer of the same name with the same parameter names
\* and shapes
FreshLayer(st) ==
  [st EXCEPT !.heap = [i \in 1..Len(st.heap) |->
                         IF \E p \in DOMAIN st.params : st.params[p] = i
                         THEN [st.heap[i] EXCEPT !.val = FreshValues(Len(st.heap[i].val))]
                         ELSE st.heap[i]]]

\* what the first layer held when it was saved
MarkSaved(st, heap) == [st EXCEPT !.saved = [done |-> TRUE, heap |-> heap]]

\* save of the layer, then load of the store into the fresh layer
SaveReload(st) == Load(MarkSaved(FreshLayer(st), st.heap), Save(st))

(***************************************************************************)
(* Container.set_params_by_dict.  The mapping is a python dict: the order  *)
(* of its items is not fixed by the names, so the order is drawn with the  *)
(* mapping.  An array is drawn by its quality like a dataset of a store.   *)
(***************************************************************************)
DictQualityOf(name) ==
  IF name = "b_B" THEN {"good", "shape", "nan"} ELSE {"good", "shape"}

\* the mappings: a quality for each name the mapping holds
DictQualities ==
  UNION {{q \in [S -> {"good", "shape", "nan"}] : \A n \in S : q[n] \in DictQualityOf(n)} :
         S \in SUBSET StoreNames}

\* the orders params.items() may have
DictOrders == {StoreOrder, Reverse(StoreOrder)}

\* the mapping drawn for the layer in state st
DictOf(st, q) ==
  [n \in DOMAIN q |-> Dataset(StoredShape(DeclaredShape(st, n), q[n]), q[n])]

\* the mutant assigns without the assertion on the shape
SetEntryUnchecked(st, params, p) ==
  IF p \notin DOMAIN params THEN st
  ELSE IF p \notin DOMAIN st.params THEN [st EXCEPT !.set.status = "KeyError"]
  ELSE [st EXCEPT !.heap[st.params[p]].val = params[p].val,
                  !.heap[st.params[p]].shape = params[p].shape]

\* the body of "for p, v in params.items()" for the name p, if the mapping holds it
SetEntry(st, params, p) ==
  IF p \notin DOMAIN params THEN st
  ELSE IF p \notin DOMAIN st.params THEN [st EXCEPT !.set.status = "KeyError"]
  ELSE IF st.heap[st.params[p]].shape # params[p].shape
  THEN [st EXCEPT !.set.status = "AssertionError"]
  ELSE [st EXCEPT !.heap[st.params[p]].val = params[p].val]

\* the loop from the k-th item on; a failure ends the call
RECURSIVE SetLoop(_, _, _, _)
SetLoop(st, params, order, k) ==
  IF k > Len(order) \/ st.set.status # "ok" THEN st
  ELSE SetLoop(SetEntry(st, params, order[k]), params, order, k + 1)

\* the state the call starts from: what it was given and what it found
SetStart(st, params, order) ==
  [st EXCEPT !.set = [done |-> TRUE, status |-> "ok", params |-> params, order |-> order,
                      heap |-> st.heap, declared |-> st.params]]

\* the mutant puts the old values back when the call fails
SetParamsRollback(st, params, order) ==
  IF SetLoop(SetStart(st, params, order), params, order, 1).set.status = "ok"
  THEN SetLoop(SetStart(st, params, order), params, order, 1)
  ELSE [SetLoop(SetStart(st, params, order), params, order, 1) EXCEPT !.heap = st.heap]

\* Container.set_params_by_dict(params)
SetParamsByDict(st, params, order) == SetLoop(SetStart(st, params, order), params, order, 1)

(***************************************************************************)
(* Layer.concat_units.  The other layer is a layer constructed like this   *)
(* one, with arrays of its own that hold the values of this layer or other *)
(* values.  An array of two axes is kept row by row.                       *)
(***************************************************************************)
\* the axis numpy.concatenate is given for an array of the shape
ConcatAxis(shape, axis) == IF Len(shape) - 1 < axis THEN Len(shape) - 1 ELSE axis

\* whether numpy.concatenate((a, b), axis) accepts the two shapes
Concatenable(sa, sb, ax) ==
  /\ Len(sa) >= 1
  /\ Len(sa) = Len(sb)
  /\ \A d \in 1..Len(sa) : d # ax + 1 => sa[d] = sb[d]

\* the value at flat position k of the two arrays joined along the columns
JoinedColumn(a, b, k) ==
  IF (k - 1) % (a.shape[2] + b.shape[2]) < a.shape[2]
  THEN a.val[((k - 1) \div (a.shape[2] + b.shape[2])) * a.shape[2]
             + ((k - 1) % (a.shape[2] + b.shape[2])) + 1]
  ELSE b.val[((k - 1) \div (a.shape[2] + b.shape[2])) * b.shape[2]
             + ((k - 1) % (a.shape[2] + b.shape[2])) - a.shape[2] + 1]

\* numpy.concatenate((a, b), axis = ax) of two arrays it accepts
Concatenate(a, b, ax) ==
  IF ax = 0
  THEN [a EXCEPT !.shape = [@ EXCEPT ![1] = a.shape[1] + b.shape[1]], !.val = a.val \o b.val]
  ELSE [a EXCEPT !.shape = [@ EXCEPT ![2] = a.shape[2] + b.shape[2]],
                 !.val = [k \in 1..(a.shape[1] * (a.shape[2] + b.shape[2])) |->
                            JoinedColumn(a, b, k)]]

\* the body of "for p in other.params.keys()" for the name p, if other holds it
ConcatEntry(st, other, p, axis) ==
  IF p \notin DOMAIN other.params \/ p = "b" THEN st
  ELSE IF p \notin DOMAIN st.params THEN [st EXCEPT !.concat.status = "KeyError"]
  ELSE IF ~Concatenable(st.heap[st.params[p]].shape, other.heap[other.params[p]].shape,
                        ConcatAxis(st.heap[st.params[p]].shape, axis))
  THEN [st EXCEPT !.concat.status = "ValueError"]
  ELSE [st EXCEPT !.heap[st.params[p]] =
          Concatenate(@, other.heap[other.params[p]],
                      ConcatAxis(st.heap[st.params[p]].shape, axis))]

\* the loop from the k-th key on; a failure ends the call
RECURSIVE ConcatLoop(_, _, _, _, _)
ConcatLoop(st, other, order, axis, k) ==
  IF k > Len(order) \/ st.concat.status # "ok" THEN st
  ELSE ConcatLoop(ConcatEntry(st, other, order[k], axis), other, order, axis, k + 1)

\* the state the call starts from: what it was given and what it found
ConcatStart(st, axis) ==
  [st EXCEPT !.concat = [done |-> TRUE, status |-> "ok", axis |-> axis, heap |-> st.heap]]

\* the statement after the loop: other.arrs is no attribute of a layer
ConcatNOut(st, axis) ==
  IF st.concat.status = "ok" /\ axis = 1
  THEN [st EXCEPT !.concat.status = "AttributeError"]
  ELSE st

\* Layer.concat_units(other, axis); same_class is what the assertion finds
ConcatUnitsOf(st, other, same_class, order, axis) ==
  IF ~same_class THEN [ConcatStart(st, axis) EXCEPT !.concat.status = "AssertionError"]
  ELSE ConcatNOut(ConcatLoop(ConcatStart(st, axis), other, order, axis, 1), axis)

(***************************************************************************)
(* The parameter model: the layer "B" is constructed in a network whose    *)
(* substitution policies are drawn, further parameters are added to it,    *)
(* and a store is loaded into it.                                          *)
(***************************************************************************)
\* the names the network's policy and the layer's expression intercept
Policies ==
  {[net |-> {}, expr |-> {}],
   [net |-> {"b_B"}, expr |-> {}],
   [net |-> {}, expr |-> {"b_B"}],
   [net |-> {"b_B"}, expr |-> {"b_B", "W"}],
   [net |-> {"W"}, expr |-> {"W", "b_B"}]}

\* the names of the sources of the layer
SourceLists == {<<"A">>, <<"A", "A">>}

\* the calls add_param(tensor named tname, name)
AddInputs ==
  {[name |-> "", tname |-> ""], [name |-> "W", tname |-> ""],
   [name |-> "", tname |-> "W"], [name |-> "param_4", tname |-> ""]}

NotLoaded == [done |-> FALSE]

NotSet == [done |-> FALSE]

ParamInit ==
  /\ \E pol \in Policies, with_bias \in BOOLEAN, sources \in SourceLists,
        unit \in {"vanilla", "lstme", "gru"}, shift \in {0, Scale},
        floatX \in {"float32", "float64"} :
       pm = [status |-> "ok", netNames |-> pol.net, exprNames |-> pol.expr,
             with_bias |-> with_bias, sources |-> sources, unit |-> unit,
             forget_shift |-> shift, floatX |-> floatX, heap |-> ForeignTensors,
             params |-> <<>>, unit_params |-> <<>>, saved |-> [done |-> FALSE],
             owned |-> <<>>, b |-> 0, adds |-> 0,
             last |-> [called |-> FALSE], loaded |-> NotLoaded, set |-> NotSet,
             concat |-> [done |-> FALSE]]
  /\ pmPc = "new"
  /\ call = [op |-> "none"]
  /\ callPc = "off"
  /\ stepIn = [i_t |-> <<>>]
  /\ stepOut = [y |-> <<>>]
  /\ stepPc = "off"
  /\ layer = NoLayer
  /\ layerPc = "off"
  /\ scan = [status |-> "none"]
  /\ scanPc = "off"

\* the bias of Layer.__init__
LayerInitBias ==
  /\ pmPc = "new"
  /\ pm' = LayerBias(pm, UnitDims(pm.unit, NUnits).n_out)
  /\ pmPc' = "base"
  /\ UNCHANGED <<stepVars, layerVars, scanVars, callVars>>

\* the parameters of RecurrentUnitLayer.__init__
ConstructRecurrent ==
  /\ pmPc = "base"
  /\ pm' = RecurrentParams(pm, UnitDims(pm.unit, NUnits))
  /\ pmPc' = IF pm'.status = "ok" THEN "params" ELSE "failed"
  /\ UNCHANGED <<stepVars, layerVars, scanVars, callVars>>

\* the scan and the end of RecurrentUnitLayer.__init__
FinishRecurrent ==
  /\ pmPc = "params"
  /\ pm' = RecurrentFinish(pm, UnitDims(pm.unit, NUnits))
  /\ pmPc' = IF pm'.status = "ok" THEN "built" ELSE "failed"
  /\ UNCHANGED <<stepVars, layerVars, scanVars, callVars>>

\* a further add_param call on the constructed layer
AddParamCall ==
  /\ pmPc = "built"
  /\ pm.adds < MaxAdds
  /\ \E in \in AddInputs :
       pm' = [AddNewParam(Shared(pm, in.tname, <<1>>, <<Scale>>), in.name)
                EXCEPT !.adds = @ + 1]
  /\ pmPc' = "built"
  /\ UNCHANGED <<stepVars, layerVars, scanVars, callVars>>

\* load(head) on the constructed layer
LoadParams ==
  /\ pmPc = "built"
  /\ \E has_group \in BOOLEAN, q \in StoreQualities :
       /\ has_group \/ DOMAIN q = {}
       /\ pm' = Load(pm, StoreOf(pm, has_group, q))
  /\ pmPc' = "loaded"
  /\ UNCHANGED <<stepVars, layerVars, scanVars, callVars>>

\* set_params_by_dict(params) on the constructed layer
SetParams ==
  /\ pmPc = "built"
  /\ \E q \in DictQualities, order \in DictOrders :
       pm' = SetParamsByDict(pm, DictOf(pm, q), order)
  /\ pmPc' = "set"
  /\ UNCHANGED <<stepVars, layerVars, scanVars, callVars>>

\* save(head) of the layer and load(head) into a fresh layer like it
SaveAndReload ==
  /\ pmPc \in {"built", "set"}
  /\ pm' = SaveReload(pm)
  /\ pmPc' = "reloaded"
  /\ UNCHANGED <<stepVars, layerVars, scanVars, callVars>>

\* concat_units(other, axis) on the constructed layer
ConcatUnits ==
  /\ pmPc = "built"
  /\ \E same_class \in BOOLEAN, axis \in {0, 1}, order \in {GroupOrder, Reverse(GroupOrder)},
        other \in {pm, FreshLayer(pm)} :
       pm' = ConcatUnitsOf(pm, other, same_class, order, axis)
  /\ pmPc' = "concat"
  /\ UNCHANGED <<stepVars, layerVars, scanVars, callVars>>

ParamNext ==
  \/ ConcatUnits
  \/ LayerInitBias
  \/ ConstructRecurrent
  \/ FinishRecurrent
  \/ AddParamCall
  \/ LoadParams
  \/ SetParams
  \/ SaveAndReload

SpecParam == ParamInit /\ [][ParamNext]_vars

\* C7: constructing the layer never changes the value of a parameter that
\* another layer owns, also when the layer's bias is substituted by it: every
\* tensor of the other layer keeps the shape and values it had.
C7_NoWriteToAliased ==
  pmPc # "off" => \A f \in ForeignIds : pm.heap[f] = ForeignTensors[f]

\* C8: add_param returns the network's substitute when the network yields one
\* (the layer's expression is then not evaluated), otherwise the substitute of
\* the layer's expression when that yields one, otherwise the given tensor; the
\* given tensor is registered under the name exactly when no substitute was
\* returned, and no parameter of the layer is a tensor of another layer.
C8_SubstitutionAtAddTime ==
  (pmPc # "off" /\ pm.last.called) =>
    LET n == pm.last.name
        substituted == n \in pm.netNames \/ n \in pm.exprNames
    IN  /\ pm.last.returned =
             IF n \in pm.netNames THEN NetSubstitute
             ELSE IF n \in pm.exprNames THEN ExprSubstitute
             ELSE pm.last.given
        /\ n \in pm.netNames => ~pm.last.expr_asked
        /\ pm.last.registered <=> ~substituted
        /\ substituted => pm.params = pm.last.before
        /\ ~substituted =>
             /\ DOMAIN pm.params = (DOMAIN pm.last.before) \cup {n}
             /\ pm.params[n] = pm.last.given
             /\ \A q \in (DOMAIN pm.last.before) \ {n} : pm.params[q] = pm.last.before[q]
        /\ \A q \in DOMAIN pm.params : pm.params[q] \notin ForeignIds

\* a call whose name both policies intercept returned the network's substitute
\* and left the parameters the layer had registered before
C8_Witness ==
  /\ pmPc = "built"
  /\ pm.last.called
  /\ pm.last.name \in pm.netNames \cap pm.exprNames
  /\ pm.last.returned = NetSubstitute
  /\ pm.last.given \notin ForeignIds
  /\ DOMAIN pm.params # {}
  /\ pm.adds > 0

\* C9: every tensor that add_param registered is still stored under the name it
\* was registered with: no later call replaced it.
C9_UniqueNames ==
  pmPc # "off" =>
    \A k \in 1..Len(pm.owned) :
      /\ pm.owned[k].name \in DOMAIN pm.params
      /\ pm.params[pm.owned[k].name] = pm.owned[k].tensor

\* C10: a load from a store that lacks the layer's group or some declared
\* names, or holds undeclared names, changes nothing but the declared parameters
\* the store holds: a declared parameter absent from the store keeps its value,
\* no parameter is added or removed, and if every dataset of a declared
\* parameter has the declared shape and finite values the load does not fail
\* and every such parameter has the stored values.
C10_LoadMissingData ==
  pmPc = "loaded" =>
    LET store == pm.loaded.store
        held == IF store.has_group THEN DOMAIN store.entries ELSE {}
        declared == DOMAIN pm.params
        valid(p) == /\ pm.loaded.heap[pm.params[p]].shape = store.entries[p].shape
                    /\ \A k \in 1..Len(store.entries[p].val) :
                         store.entries[p].val[k] \notin {NaN, Inf}
    IN  /\ pm.params = pm.loaded.params
        /\ Len(pm.heap) = Len(pm.loaded.heap)
        /\ \A p \in declared \ held : pm.heap[pm.params[p]] = pm.loaded.heap[pm.params[p]]
        /\ \A i \in 1..Len(pm.heap) :
             (\A p \in declared \cap held : pm.params[p] # i) => pm.heap[i] = pm.loaded.heap[i]
        /\ (\A p \in declared \cap held : valid(p)) =>
             /\ pm.loaded.status = "ok"
             /\ \A p \in declared \cap held :
                  /\ pm.heap[pm.params[p]].val = store.entries[p].val
                  /\ pm.heap[pm.params[p]].shape = store.entries[p].shape

\* a store without the declared recurrent weights and with an undeclared name
\* was loaded, and the bias took the stored values
C10_Witness ==
  /\ pmPc = "loaded"
  /\ pm.loaded.status = "ok"
  /\ pm.loaded.store.has_group
  /\ "W_re_B" \in (DOMAIN pm.params) \ (DOMAIN pm.loaded.store.entries)
  /\ "zz_B" \in (DOMAIN pm.loaded.store.entries) \ (DOMAIN pm.params)
  /\ "b_B" \in (DOMAIN pm.params) \cap (DOMAIN pm.loaded.store.entries)
  /\ pm.heap[pm.params["b_B"]].val = pm.loaded.store.entries["b_B"].val
  /\ pm.heap[pm.params["b_B"]].val # pm.loaded.heap[pm.params["b_B"]].val

\* C11: when the store holds, for a declared parameter, a dataset of another
\* shape or with a NaN or Inf value, load fails, and every such parameter has
\* the shape and the values it had before the load.
C11_LoadRejection ==
  pmPc = "loaded" =>
    LET store == pm.loaded.store
        held == IF store.has_group THEN DOMAIN store.entries ELSE {}
        rejected == {p \in (DOMAIN pm.params) \cap held :
                       \/ pm.loaded.heap[pm.params[p]].shape # store.entries[p].shape
                       \/ \E k \in 1..Len(store.entries[p].val) :
                            store.entries[p].val[k] \in {NaN, Inf}}
    IN  rejected # {} =>
          /\ pm.loaded.status = "AssertionError"
          /\ \A p \in rejected : pm.heap[pm.params[p]] = pm.loaded.heap[pm.params[p]]

\* a load failed on a bias dataset of the declared shape that holds a NaN,
\* after the recurrent weights were loaded
C11_Witness ==
  /\ pmPc = "loaded"
  /\ pm.loaded.status = "AssertionError"
  /\ "b_B" \in (DOMAIN pm.params) \cap (DOMAIN pm.loaded.store.entries)
  /\ pm.loaded.store.entries["b_B"].shape = pm.loaded.heap[pm.params["b_B"]].shape
  /\ \E k \in 1..Len(pm.loaded.store.entries["b_B"].val) :
       pm.loaded.store.entries["b_B"].val[k] = NaN
  /\ "W_re_B" \in DOMAIN pm.loaded.store.entries
  /\ pm.heap[pm.params["W_re_B"]].val = pm.loaded.store.entries["W_re_B"].val

\* C12: set_params_by_dict assigns a value only to the parameter it is named
\* for and only when the shapes are equal; when some entry of a declared name
\* has another shape the call fails (with the assertion on the shape when every
\* name is declared) and every such parameter is unchanged; when every entry is
\* of a declared name and matches, the call returns and exactly the named
\* parameters have the given values.
C12_SetParamsShapeGate ==
  pmPc = "set" =>
    LET given == pm.set.params
        declared == DOMAIN pm.params
        mismatch == {p \in declared \cap DOMAIN given :
                       pm.set.heap[pm.params[p]].shape # given[p].shape}
    IN  /\ pm.params = pm.set.declared
        /\ Len(pm.heap) = Len(pm.set.heap)
        /\ \A i \in 1..Len(pm.heap) :
             pm.heap[i] # pm.set.heap[i] =>
               \E p \in declared \cap DOMAIN given :
                 /\ pm.params[p] = i
                 /\ pm.set.heap[i].shape = given[p].shape
                 /\ pm.heap[i] = [pm.set.heap[i] EXCEPT !.val = given[p].val]
        /\ mismatch # {} =>
             /\ pm.set.status # "ok"
             /\ DOMAIN given \subseteq declared => pm.set.status = "AssertionError"
             /\ \A p \in mismatch : pm.heap[pm.params[p]] = pm.set.heap[pm.params[p]]
        /\ (mismatch = {} /\ DOMAIN given \subseteq declared) =>
             /\ pm.set.status = "ok"
             /\ \A p \in DOMAIN given : pm.heap[pm.params[p]].val = given[p].val

\* a call failed on a bias of another shape after it had assigned the
\* recurrent weights
C12_Witness ==
  /\ pmPc = "set"
  /\ pm.set.status = "AssertionError"
  /\ DOMAIN pm.set.params = {"W_re_B", "b_B"}
  /\ DOMAIN pm.set.params \subseteq DOMAIN pm.params
  /\ pm.set.params["b_B"].shape # pm.set.heap[pm.params["b_B"]].shape
  /\ pm.heap[pm.params["b_B"]] = pm.set.heap[pm.params["b_B"]]
  /\ pm.heap[pm.params["W_re_B"]].val = pm.set.params["W_re_B"].val
  /\ pm.heap[pm.params["W_re_B"]].val # pm.set.heap[pm.params["W_re_B"]].val

\* C13: after save into an empty store and load of that store into a freshly
\* initialised layer with the same parameter names and shapes, the load has
\* returned and every parameter of the second layer has the value the first
\* layer had when it was saved.
C13_SaveLoadRoundTrip ==
  pmPc = "reloaded" =>
    /\ pm.loaded.status = "ok"
    /\ \A p \in DOMAIN pm.params :
         pm.heap[pm.params[p]].val = pm.saved.heap[pm.params[p]].val

\* the round trip restores the values of a layer of single precision whose
\* values are finite
C13_RoundTripSinglePrecision ==
  (/\ pmPc = "reloaded"
   /\ pm.floatX = "float32"
   /\ \A p \in DOMAIN pm.params :
        \A k \in 1..Len(pm.saved.heap[pm.params[p]].val) :
          pm.saved.heap[pm.params[p]].val[k] \notin {NaN, Inf}) =>
    /\ pm.loaded.status = "ok"
    /\ \A p \in DOMAIN pm.params :
         pm.heap[pm.params[p]] = pm.saved.heap[pm.params[p]]

(***************************************************************************)
(* Calls of single functions of a layer.  The variables of the other       *)
(* models are at rest while one function is applied to drawn arguments.    *)
(***************************************************************************)
OthersAtRest ==
  /\ stepIn = [i_t |-> <<>>]
  /\ stepOut = [y |-> <<>>]
  /\ stepPc = "off"
  /\ layer = NoLayer
  /\ layerPc = "off"
  /\ scan = [status |-> "none"]
  /\ scanPc = "off"
  /\ pm = [status |-> "none"]
  /\ pmPc = "off"

(***************************************************************************)
(* The weight initialisers: what matters here is the shape of the array    *)
(* they make and whether an assertion fails.                               *)
(***************************************************************************)
\* the initialiser expressions forward_weights_init / recurrent_weights_init
WeightInits ==
  {"random_normal()", "random_uniform()", "random_unitary()", "random_unitary_tiled()",
   "eye()"}

\* create_random_normal_weights: size=(n, self.depth, m) or size=(n, m)
RandomNormalShape(n, m, depth) == IF depth > 1 THEN <<n, depth, m>> ELSE <<n, m>>

\* create_random_uniform_weights: size=(n, depth, m) or size=(n, m)
RandomUniformShape(n, m, depth) == IF depth > 1 THEN <<n, depth, m>> ELSE <<n, m>>

\* the shapes of u and v of numpy.linalg.svd(x, full_matrices=0) for x of (n, m)
SvdShapes(n, m) == [u |-> <<n, Min2(n, m)>>, v |-> <<Min2(n, m), m>>]

\* an array of the shape, or the failure of "assert x.shape == (n, m)"
AssertShape(shape, n, m) ==
  IF shape = <<n, m>> THEN [status |-> "ok", shape |-> shape]
  ELSE [status |-> "AssertionError", shape |-> <<>>]

\* x = u if u.shape == (n, m) else v
PickUnitary(sv, n, m) == IF sv.u = <<n, m>> THEN sv.u ELSE sv.v

\* create_random_unitary_weights(n, m)
RandomUnitary(n, m) == AssertShape(PickUnitary(SvdShapes(n, m), n, m), n, m)

\* x[:, :m] of the concatenation of fac tiles of (n, n), transposed if asked
TiledShape(n, m, fac, transpose) ==
  IF transpose THEN <<Min2(m, fac * n), n>> ELSE <<n, Min2(m, fac * n)>>

\* create_random_unitary_tiled_weights once n <= m: the asserts on the way
TiledSmallFirst(n, m, transpose) ==
  IF Min2(m, (((m - 1) \div n) + 1) * n) # m
  THEN [status |-> "AssertionError", shape |-> <<>>]
  ELSE [status |-> "ok", shape |-> TiledShape(n, m, ((m - 1) \div n) + 1, transpose)]

\* create_random_unitary_tiled_weights(n, m)
RandomUnitaryTiled(n, m) ==
  IF n > m THEN TiledSmallFirst(m, n, TRUE) ELSE TiledSmallFirst(n, m, FALSE)

\* v = eval(init_eval_str, eval_locals)
EvalInit(init, n, m, depth) ==
  CASE init = "random_normal()" -> [status |-> "ok", shape |-> RandomNormalShape(n, m, depth)]
    [] init = "random_uniform()" -> [status |-> "ok", shape |-> RandomUniformShape(n, m, depth)]
    [] init = "random_unitary()" -> RandomUnitary(n, m)
    [] init = "random_unitary_tiled()" -> RandomUnitaryTiled(n, m)
    [] init = "eye()" -> [status |-> "ok", shape |-> <<n, m>>]

\* assert v.ndim == 2
AssertNdim(v) ==
  IF v.status = "ok" /\ Len(v.shape) # 2 THEN [status |-> "AssertionError", shape |-> <<>>]
  ELSE v

\* _create_eval_weights(n, m, name, default_name_prefix, init_eval_str), which
\* create_forward_weights and create_recurrent_weights call
CreateEvalWeights(init, n, m, depth) == AssertNdim(EvalInit(init, n, m, depth))

WeightsInit ==
  /\ \E init \in WeightInits, n \in 1..MaxDim, m \in 1..MaxDim, depth \in 1..MaxDepth :
       call = [op |-> "create_forward_weights", init |-> init, n |-> n, m |-> m,
               depth |-> depth]
  /\ callPc = "ready"
  /\ OthersAtRest

CreateWeights ==
  /\ callPc = "ready"
  /\ call' = [op |-> "created", init |-> call.init, n |-> call.n, m |-> call.m,
               depth |-> call.depth,
               v |-> CreateEvalWeights(call.init, call.n, call.m, call.depth)]
  /\ callPc' = "done"
  /\ UNCHANGED <<stepVars, layerVars, scanVars, paramVars>>

WeightsNext == CreateWeights

SpecWeights == WeightsInit /\ [][WeightsNext]_vars

\* C14: for every initialiser, n, m and depth the weights are created without a
\* failure, of shape (n, m) when depth = 1 and (n, depth, m) when depth > 1.
C14_InitialiserShape ==
  (callPc = "done" /\ call.op = "created") =>
    /\ call.v.status = "ok"
    /\ call.v.shape =
         IF call.depth = 1 THEN <<call.n, call.m>> ELSE <<call.n, call.depth, call.m>>

\* with depth 1 every initialiser returns weights of shape (n, m)
C14_ShapeAtDepthOne ==
  (callPc = "done" /\ call.op = "created" /\ call.depth = 1) =>
    /\ call.v.status = "ok"
    /\ call.v.shape = <<call.n, call.m>>

(***************************************************************************)
(* The unit selection of RecurrentUnitLayer.__init__.                      *)
(***************************************************************************)
\* the values of theano.config.device
Devices == {"cpu", "cpu0", "gpu", "gpu0"}

\* str(theano.config.device).startswith('cpu')
StartsWithCpu(device) == device \in {"cpu", "cpu0"}

UnitNames == {"lstm", "lstme", "lstmp", "lstmc", "vanilla", "gru", "sru"}

\* the mutant keeps an explicitly requested fused unit on a CPU device
ResolveUnitNoFallback(unit, device, recurrent_transform, lm, droplm) ==
  IF unit = "lstm"
  THEN IF StartsWithCpu(device) THEN "lstme"
       ELSE IF recurrent_transform = "none" /\ (~lm \/ droplm = 0) THEN "lstmp"
       ELSE "lstmc"
  ELSE unit

\* the unit the constructor instantiates for the requested one
ResolveUnit(unit, device, recurrent_transform, lm, droplm) ==
  IF unit = "lstm"
  THEN IF StartsWithCpu(device) THEN "lstme"
       ELSE IF recurrent_transform = "none" /\ (~lm \/ droplm = 0) THEN "lstmp"
       ELSE "lstmc"
  ELSE IF unit \in {"lstmc", "lstmp"} /\ StartsWithCpu(device) THEN "lstme"
  ELSE unit

\* unit_given = unit; ...; self.set_attr('unit', unit_given); unit = eval(unit.upper())
SelectUnit(in) ==
  [attr_unit |-> in.unit,
   unit |-> ResolveUnit(in.unit, in.device, in.recurrent_transform, in.lm, in.droplm)]

UnitInit ==
  /\ \E unit \in UnitNames, device \in Devices, rt \in {"none", "attention"},
        lm \in BOOLEAN, droplm \in {0, Scale \div 2, Scale} :
       call = [op |-> "select_unit",
               in |-> [unit |-> unit, device |-> device, recurrent_transform |-> rt,
                       lm |-> lm, droplm |-> droplm]]
  /\ callPc = "ready"
  /\ OthersAtRest

ChooseUnit ==
  /\ callPc = "ready"
  /\ call' = [op |-> "unit_selected", in |-> call.in, out |-> SelectUnit(call.in)]
  /\ callPc' = "done"
  /\ UNCHANGED <<stepVars, layerVars, scanVars, paramVars>>

UnitNext == ChooseUnit

SpecUnit == UnitInit /\ [][UnitNext]_vars

\* C15: 'lstm' resolves to lstme on a CPU device, and otherwise to lstmp exactly
\* when recurrent_transform is 'none' and (lm is off or droplm = 0), else to
\* lstmc; 'lstmp' and 'lstmc' resolve to lstme on a CPU device; every other
\* request is used as given; the stored attribute is the requested name.
C15_UnitSelection ==
  (callPc = "done" /\ call.op = "unit_selected") =>
    LET in == call.in
        cpu == in.device \in {"cpu", "cpu0"}
        fused == in.recurrent_transform = "none" /\ (~in.lm \/ in.droplm = 0)
    IN  /\ call.out.attr_unit = in.unit
        /\ (in.unit = "lstm" /\ cpu) => call.out.unit = "lstme"
        /\ (in.unit = "lstm" /\ ~cpu /\ fused) => call.out.unit = "lstmp"
        /\ (in.unit = "lstm" /\ ~cpu /\ ~fused) => call.out.unit = "lstmc"
        /\ (in.unit \in {"lstmp", "lstmc"} /\ cpu) => call.out.unit = "lstme"
        /\ (in.unit \in {"lstmp", "lstmc"} /\ ~cpu) => call.out.unit = in.unit
        /\ in.unit \notin {"lstm", "lstmp", "lstmc"} => call.out.unit = in.unit

\* 'lstmp' was requested on a CPU device and the generic unit was taken
C15_Witness ==
  /\ callPc = "done"
  /\ call.op = "unit_selected"
  /\ call.in.unit = "lstmp"
  /\ call.in.device = "cpu"
  /\ call.out.unit = "lstme"
  /\ call.out.attr_unit = "lstmp"

(***************************************************************************)
(* The forget-gate bias shift.                                             *)
(***************************************************************************)
\* C16: with a non-zero bias_random_init_forget_shift the constructor gets past
\* the bias only when n_in = 4 * n_units, and the bias then holds the shift on
\* exactly [n_units, 2 * n_units) and zero elsewhere, which is the slice the
\* generic LSTM step reads as the forget gate in the order input, forget,
\* output, candidate.
C16_ForgetBiasShift ==
  (pm.status = "ok" /\ pm.forget_shift # 0 /\ pmPc \in {"params", "built"}) =>
    LET d == UnitDims(pm.unit, NUnits)
        bias == pm.heap[pm.b].val
        g == LSTMEGates(bias, Len(bias) \div 4)
        shifted == [k \in 1..d.n_units |-> pm.forget_shift]
    IN  /\ d.n_in = 4 * d.n_units
        /\ Len(bias) = d.n_in
        /\ \A k \in 1..d.n_in :
             bias[k] = IF k - 1 >= d.n_units /\ k - 1 < 2 * d.n_units
                       THEN pm.forget_shift ELSE 0
        /\ g.forgetgate = VecSigmoid(shifted)
        /\ g.ingate = VecSigmoid(Zeros(d.n_units))
        /\ g.outgate = VecSigmoid(Zeros(d.n_units))
        /\ g.input = VecTanh(Zeros(d.n_units))

\* an LSTM layer was constructed with a forget shift of 1.0
C16_Witness ==
  /\ pmPc = "built"
  /\ pm.status = "ok"
  /\ pm.unit = "lstme"
  /\ pm.forget_shift = Scale
  /\ pm.heap[pm.b].val[NUnits + 1] = Scale
  /\ pm.heap[pm.b].val[1] = 0

\* a unit whose n_in is not 4 * n_units never gets past the bias with a shift
C16_ShiftNeedsFourGates ==
  (pm.status = "ok" /\ pm.forget_shift # 0 /\ pm.unit \in {"vanilla", "gru"}) =>
    pmPc \in {"new", "base"}

(***************************************************************************)
(* Layer.make_consensus and Layer.make_output.  The output of a layer is a *)
(* symbolic expression; it is kept as the sequence of the nodes that were  *)
(* put on top of the given expression, the last one outermost.             *)
(***************************************************************************)
ConsensusNames == {"max", "min", "mean", "sum", "prod", "var", "flat", "project", "random"}

\* the names a configuration may give, one of them unknown
ConsensusGiven == ConsensusNames \cup {"median"}

\* the keys of self.attrs after Container.__init__ and Layer.__init__ that
\* make_output and make_consensus read
AttrKeys(depth, consensus) ==
  {"sparse", "sparse_filtering", "layer_drop", "residual", "n_out", "batch_norm"}
    \cup (IF depth # 1 THEN {"depth"} ELSE {})
    \cup (IF consensus # "flat" THEN {"consensus"} ELSE {})

\* self.set_attr(...) of both constructors
LayerAttrs(a) ==
  [k \in AttrKeys(a.depth, a.consensus) |->
     CASE k = "sparse" -> a.sparse
       [] k = "sparse_filtering" -> a.sparse_filtering
       [] k = "layer_drop" -> a.layer_drop
       [] k = "residual" -> a.residual
       [] k = "n_out" -> a.n_out
       [] k = "batch_norm" -> a.batch_norm
       [] k = "depth" -> a.depth
       [] k = "consensus" -> a.consensus]

\* create_bias(n) with bias_init "zeros()": size (depth, n) or (n,)
CreateBiasAtDepth(st, n) ==
  Shared(st, "b_" \o LayerName, IF st.depth > 1 THEN <<st.depth, n>> ELSE <<n>>,
         Zeros(st.depth * n))

\* Container.__init__ and Layer.__init__ for the arguments a
NewLayer(a) ==
  SetB(AddNewParam(CreateBiasAtDepth(
         [status |-> "ok", depth |-> a.depth, train_flag |-> a.train_flag,
          forward_weights_init |-> "random_normal()", n_in |-> a.n_in,
          attrs |-> LayerAttrs(a), output |-> <<>>, idx |-> -1, collapse |-> FALSE,
          device |-> a.device, output_set |-> FALSE, has_output |-> FALSE,
          netNames |-> {}, exprNames |-> {},
          heap |-> <<>>, params |-> <<>>, owned |-> <<>>, b |-> 0,
          last |-> [called |-> FALSE]], a.n_out), "b_" \o LayerName))

\* the expression f(self.output, ...) takes the place of self.output
Node(st, label) == [st EXCEPT !.output = Append(@, label)]

Raise(st, error) == [st EXCEPT !.status = error]

\* p = self.add_param(self.create_random_uniform_weights(n_out, 1, n_out + depth + 1))
ProjectWeights(st, n_out) ==
  AddNewParam(Shared(st, "W_" \o LayerName, RandomUniformShape(n_out, 1, st.depth),
                     RandomWeights(n_out * st.depth)), "")

\* networks[:,:,idx] for idx = self.rng.random_integers(size=(1,), low=0, high=self.depth)
RandomSlice(st, idx) == [Node(st, "subtensor") EXCEPT !.idx = idx]

\* the branches of make_consensus for the strategy cns
ConsensusOf(st, cns, idx) ==
  CASE cns \in {"max", "min", "mean", "sum", "prod", "var"} -> Node(st, cns)
    [] cns = "flat" -> IF st.depth = 1 THEN st ELSE Node(st, "flatten")
    [] cns = "project" -> Node(ProjectWeights(st, st.attrs["n_out"]), "tensordot")
    [] cns = "random" -> RandomSlice(st, idx)
    [] OTHER -> Raise(st, "AssertionError")

\* make_consensus(networks): cns = self.attrs['consensus']
MakeConsensus(st, idx) ==
  IF "consensus" \notin DOMAIN st.attrs THEN Raise(st, "KeyError")
  ELSE ConsensusOf(st, st.attrs["consensus"], idx)

\* if self.attrs['consensus'] == 'flat': self.attrs['n_out'] *= self.depth
FlatWidth(st) ==
  IF st.status # "ok" THEN st
  ELSE IF st.attrs["consensus"] = "flat"
  THEN [st EXCEPT !.attrs["n_out"] = @ * st.depth]
  ELSE st

\* if collapse and self.depth > 1
CollapseStep(st, collapse) ==
  IF collapse /\ st.depth > 1 THEN FlatWidth(MakeConsensus(st, st.idx)) ELSE st

\* batch_norm(h, dim): gamma and beta are named after h, which has no name
BatchNorm(st, dim) ==
  Node(AddNewParam(Shared(AddNewParam(Shared(st, "None_gamma", <<dim>>,
                                             [k \in 1..dim |-> Scale \div 10]), ""),
                          "None_beta", <<dim>>, Zeros(dim)), ""),
       "batch_norm")

BatchNormStep(st) ==
  IF st.status # "ok" THEN st
  ELSE IF st.attrs["batch_norm"] THEN BatchNorm(st, st.attrs["n_out"])
  ELSE st

\* z, n_in = concat_sources(...); assert n_in == self.attrs['n_out']; self.output += z
ResidualStep(st) ==
  IF st.status # "ok" THEN st
  ELSE IF ~st.attrs["residual"] THEN st
  ELSE IF st.n_in # st.attrs["n_out"] THEN Raise(st, "AssertionError")
  ELSE Node(st, "add")

\* self.W_drop = self.add_param(self.create_forward_weights(n_in, n_out, name="W_drop_%s" % self.name))
\* the initialiser's array is made a shared tensor before "assert v.ndim == 2":
\* when that fails, the tensor of three axes exists and is no parameter
DropProjection(st, n_in, n_out) ==
  IF n_in = n_out \/ n_in = 0 THEN st
  ELSE IF EvalInit(st.forward_weights_init, n_in, n_out, st.depth).status # "ok"
  THEN Raise(st, "AssertionError")
  ELSE IF CreateEvalWeights(st.forward_weights_init, n_in, n_out, st.depth).status # "ok"
  THEN Raise(Shared(st, "W_drop_" \o LayerName,
                    EvalInit(st.forward_weights_init, n_in, n_out, st.depth).shape,
                    RandomWeights(n_in * st.depth * n_out)),
             "AssertionError")
  ELSE AddNewParam(Shared(st, "W_drop_" \o LayerName, <<n_in, n_out>>,
                          RandomWeights(n_in * n_out)), "")

\* ifelse(drop, z, self.output) in training, else drop * z + (1 - drop) * self.output
DropBlend(st) ==
  IF st.status # "ok" THEN st
  ELSE IF st.train_flag THEN Node(st, "ifelse")
  ELSE Node(st, "blend")

LayerDropStep(st) ==
  IF st.status # "ok" THEN st
  ELSE IF st.attrs["layer_drop"] > 0
  THEN DropBlend(DropProjection(st, st.n_in, st.attrs["n_out"]))
  ELSE st

\* self.output = T.argmax(self.output, axis=-1, keepdims=True)
SparseStep(st) ==
  IF st.status # "ok" THEN st
  ELSE IF st.attrs["sparse"] THEN Node(st, "argmax")
  ELSE st

\* the row and column normalisation of sparse filtering
SparseFilteringStep(st) ==
  IF st.status # "ok" THEN st
  ELSE IF st.attrs["sparse_filtering"] THEN Node(st, "normalize")
  ELSE st

\* self.output = output, with the arguments of the call kept
OutputStart(st, collapse, idx) ==
  [st EXCEPT !.output = <<>>, !.output_set = TRUE, !.collapse = collapse, !.idx = idx]

\* self._output = output, the last statement of make_output: has_output says
\* that the attribute exists; its value is the expression make_output was given
KeepOutput(st) ==
  IF st.status # "ok" THEN st ELSE [st EXCEPT !.has_output = TRUE]

\* the mutant takes the argmax before the layer-drop blend
MakeOutputSparseFirst(st, collapse, idx) ==
  KeepOutput(SparseFilteringStep(LayerDropStep(SparseStep(ResidualStep(BatchNormStep(
    CollapseStep(OutputStart(st, collapse, idx), collapse)))))))

\* make_output(output, collapse); idx is what self.rng draws if it is asked
MakeOutput(st, collapse, idx) ==
  KeepOutput(SparseFilteringStep(SparseStep(LayerDropStep(ResidualStep(BatchNormStep(
    CollapseStep(OutputStart(st, collapse, idx), collapse)))))))

\* self.output = self._output.transfer(device) or self.output = self._output:
\* the nodes make_output put on the expression are not in the new output
TransferTo(st, device) ==
  IF ~st.has_output THEN Raise(st, "AttributeError")
  ELSE IF device # st.device THEN [st EXCEPT !.output = <<"transfer">>]
  ELSE [st EXCEPT !.output = <<>>]

\* transfer_output(device); config is str(theano.config.device) and "None"
\* stands for None.  output_set says that self.output exists, which the first
\* statement of make_output assigns: "return self.output" fails without it
TransferOutput(st, device, config) ==
  IF device = "None" /\ st.device = "None"
  THEN IF st.output_set THEN st ELSE Raise(st, "AttributeError")
  ELSE TransferTo(st, IF device = "None" THEN config ELSE device)

OutputInit ==
  /\ \E depth \in 1..MaxDepth, consensus \in ConsensusGiven, train_flag \in BOOLEAN,
        batch_norm \in BOOLEAN, residual \in BOOLEAN, layer_drop \in {0, Scale \div 2},
        sparse \in BOOLEAN, sparse_filtering \in BOOLEAN, n_in \in 0..(NUnits + 1),
        device \in {"None", "cpu"} :
       call = [op |-> "Layer", depth |-> depth, consensus |-> consensus, device |-> device,
               train_flag |-> train_flag, batch_norm |-> batch_norm,
               residual |-> residual, layer_drop |-> layer_drop, sparse |-> sparse,
               sparse_filtering |-> sparse_filtering, n_in |-> n_in, n_out |-> NUnits]
  /\ callPc = "ready"
  /\ OthersAtRest

\* Container.__init__ and Layer.__init__
LayerConstruct ==
  /\ callPc = "ready"
  /\ call' = [op |-> "constructed", consensus |-> call.consensus, n_out |-> call.n_out,
               st |-> NewLayer(call)]
  /\ callPc' = "constructed"
  /\ UNCHANGED <<stepVars, layerVars, scanVars, paramVars>>

\* the make_output call that ends the construction of a layer class
CallMakeOutput ==
  /\ callPc = "constructed"
  /\ \E collapse \in BOOLEAN, idx \in 0..call.st.depth :
       call' = [op |-> "make_output", consensus |-> call.consensus, n_out |-> call.n_out,
                st |-> MakeOutput(call.st, collapse, idx)]
  /\ callPc' = "done"
  /\ UNCHANGED <<stepVars, layerVars, scanVars, paramVars>>

\* a call of make_consensus on its own
CallMakeConsensus ==
  /\ callPc = "constructed"
  /\ \E idx \in 0..call.st.depth :
       call' = [op |-> "make_consensus", consensus |-> call.consensus,
                n_out |-> call.n_out, st |-> MakeConsensus(call.st, idx)]
  /\ callPc' = "done"
  /\ UNCHANGED <<stepVars, layerVars, scanVars, paramVars>>

\* transfer_output(device) on the layer, as a caller or the constructor of a
\* layer built over this one makes it, before or after make_output
CallTransferOutput ==
  /\ \/ callPc = "constructed"
     \/ callPc = "done" /\ call.op = "make_output"
  /\ call.st.status = "ok"
  /\ \E device \in {"None", "cpu", "gpu"}, config \in {"cpu", "gpu"} :
       call' = [op |-> "transfer_output", consensus |-> call.consensus,
                n_out |-> call.n_out, made |-> call.st.output,
                st |-> TransferOutput(call.st, device, config)]
  /\ callPc' = "transferred"
  /\ UNCHANGED <<stepVars, layerVars, scanVars, paramVars>>

OutputNext == LayerConstruct \/ CallMakeOutput \/ CallMakeConsensus \/ CallTransferOutput

SpecOutput == OutputInit /\ [][OutputNext]_vars

\* C17: a layer given a consensus name outside max, min, mean, sum, prod, var,
\* flat, project, random fails at construction, for every depth and whether
\* or not collapse is requested.
C17_UnknownConsensusFails ==
  (callPc = "done" /\ call.op = "make_output" /\ call.consensus \notin ConsensusNames) =>
    call.st.status # "ok"

\* what the code does: with no other step that can fail, the call fails
\* exactly when depth > 1 and collapse is requested
C17_UnknownConsensusWhenCollapsing ==
  (callPc = "done" /\ call.op = "make_output" /\ call.consensus \notin ConsensusNames
     /\ ~call.st.attrs["residual"] /\ call.st.attrs["layer_drop"] = 0) =>
    (call.st.status # "ok" <=> (call.st.collapse /\ call.st.depth > 1))

\* C18: with consensus 'random' the index that make_consensus draws lies in
\* 0..depth-1 for every depth >= 1.
C18_RandomIndexInRange ==
  (callPc = "done" /\ call.st.status = "ok" /\ call.st.output # <<>>
     /\ call.st.output[1] = "subtensor") =>
    call.st.idx \in 0..(call.st.depth - 1)

\* the steps of make_output in the order the claim gives
PipelineOrder ==
  <<"consensus", "batch_norm", "residual", "layer_drop", "sparse", "sparse_filtering">>

\* the step a node of the output expression belongs to
StepOfNode(label) ==
  CASE label \in {"max", "min", "mean", "sum", "prod", "var", "flatten", "tensordot",
                  "subtensor"} -> "consensus"
    [] label = "batch_norm" -> "batch_norm"
    [] label = "add" -> "residual"
    [] label \in {"ifelse", "blend"} -> "layer_drop"
    [] label = "argmax" -> "sparse"
    [] label = "normalize" -> "sparse_filtering"

\* C19: make_output applies its enabled steps in the order consensus-collapse,
\* batch normalisation, residual add, layer-drop blend, sparse argmax,
\* sparse-filtering normalisation; each enabled step is put on top of the
\* result of the previous one, a disabled step adds nothing, and no step is
\* applied twice.
C19_PipelineOrder ==
  (callPc = "done" /\ call.op = "make_output" /\ call.st.status = "ok") =>
    LET st == call.st
        Enabled(step) ==
          CASE step = "consensus" -> st.collapse /\ st.depth > 1
            [] step = "batch_norm" -> st.attrs["batch_norm"]
            [] step = "residual" -> st.attrs["residual"]
            [] step = "layer_drop" -> st.attrs["layer_drop"] > 0
            [] step = "sparse" -> st.attrs["sparse"]
            [] step = "sparse_filtering" -> st.attrs["sparse_filtering"]
    IN  [k \in 1..Len(st.output) |-> StepOfNode(st.output[k])]
          = SelectSeq(PipelineOrder, Enabled)

\* a call in which all six steps were applied
C19_Witness ==
  /\ callPc = "done"
  /\ call.op = "make_output"
  /\ call.st.status = "ok"
  /\ Len(call.st.output) = 6
  /\ call.st.output[4] = "blend"
  /\ call.st.output[5] = "argmax"

(***************************************************************************)
(* The language-model mask of RecurrentUnitLayer.__init__.  Probabilities  *)
(* are fixed-point numbers, Scale being 1.0.                               *)
(***************************************************************************)
\* recurrent_transform[:-3]
DropLast3(recurrent_transform) ==
  CASE recurrent_transform = "attention_lm" -> "attention"
    [] recurrent_transform = "none" -> "none"

\* self.lmmask: the constant 1, a Bernoulli draw with p = 1.0 - droplm for
\* every timestep, or zeros; p_one is the probability of a bit being 1
LmMask(droplm, train_flag, force_lm) ==
  IF droplm = 0 /\ (train_flag \/ force_lm) THEN [kind |-> "one", p_one |-> Scale]
  ELSE IF droplm < Scale /\ (train_flag \/ force_lm)
  THEN [kind |-> "binomial", p_one |-> Scale - droplm]
  ELSE [kind |-> "zeros", p_one |-> 0]

\* the masks a draw with the probability p_one can give for T timesteps
MaskDraws(T, p_one) ==
  IF p_one = 0 THEN {[t \in 1..T |-> 0]}
  ELSE IF p_one = Scale THEN {[t \in 1..T |-> 1]}
  ELSE [1..T -> {0, 1}]

\* if self.attrs['lm'] and self.attrs['droplm'] == 0.0 and (self.train_flag or force_lm):
\* sequences += self.W_lm_out[y]
LmInput(lm, droplm, train_flag, force_lm) == lm /\ droplm = 0 /\ (train_flag \/ force_lm)

\* the part of the constructor that an enabled lm runs
LmSetup(in, bits) ==
  [lm |-> TRUE,
   target |-> "classes",
   added |-> <<"W_lm_in_" \o LayerName, "W_lm_out_" \o LayerName>>,
   kind |-> LmMask(in.droplm, in.train_flag, in.force_lm).kind,
   p_one |-> LmMask(in.droplm, in.train_flag, in.force_lm).p_one,
   lmmask |-> bits,
   recurrent_transform |->
     IF in.droplm = 0 /\ (in.train_flag \/ in.force_lm) /\ in.recurrent_transform # "none"
     THEN DropLast3(in.recurrent_transform) ELSE in.recurrent_transform,
   lm_input |-> LmInput(TRUE, in.droplm, in.train_flag, in.force_lm)]

\* without lm no mask is made
NoLm(in) ==
  [lm |-> FALSE, target |-> "", added |-> <<>>, kind |-> "none", p_one |-> 0,
   lmmask |-> <<>>, recurrent_transform |-> in.recurrent_transform,
   lm_input |-> FALSE]

LmInit ==
  /\ \E lm \in BOOLEAN, droplm \in 0..Scale, train_flag \in BOOLEAN, force_lm \in BOOLEAN,
        rt \in {"none", "attention_lm"}, T \in 1..MaxTime :
       call = [op |-> "lm", in |-> [lm |-> lm, droplm |-> droplm, train_flag |-> train_flag,
                                    force_lm |-> force_lm, recurrent_transform |-> rt,
                                    T |-> T]]
  /\ callPc = "ready"
  /\ OthersAtRest

\* lines 382-400 with lm on, one draw of the mask
SetupLm ==
  /\ callPc = "ready"
  /\ call.in.lm
  /\ \E bits \in MaskDraws(call.in.T,
                           LmMask(call.in.droplm, call.in.train_flag, call.in.force_lm).p_one) :
       call' = [op |-> "lm_done", in |-> call.in, out |-> LmSetup(call.in, bits)]
  /\ callPc' = "done"
  /\ UNCHANGED <<stepVars, layerVars, scanVars, paramVars>>

\* lines 382-400 with lm off
SkipLm ==
  /\ callPc = "ready"
  /\ ~call.in.lm
  /\ call' = [op |-> "lm_done", in |-> call.in, out |-> NoLm(call.in)]
  /\ callPc' = "done"
  /\ UNCHANGED <<stepVars, layerVars, scanVars, paramVars>>

LmNext == SetupLm \/ SkipLm

SpecLm == LmInit /\ [][LmNext]_vars

\* C20: with lm on in training, each bit of the teacher-forcing mask is 1
\* with probability droplm; droplm = 1 gives a mask of ones (ground truth at
\* every timestep) and droplm = 0 a mask of zeros (ground truth at none).
C20_DroplmProbability ==
  (callPc = "done" /\ call.in.lm /\ call.in.train_flag) =>
    /\ call.out.p_one = call.in.droplm
    /\ call.in.droplm = Scale => \A t \in 1..call.in.T : call.out.lmmask[t] = 1
    /\ call.in.droplm = 0 =>
         /\ \A t \in 1..call.in.T : call.out.lmmask[t] = 0
         /\ ~call.out.lm_input

\* what the code does: a bit is 1 with probability 1 - droplm, droplm = 0 takes
\* the ground truth at every timestep and droplm = 1 at none
C20_DroplmComplement ==
  (callPc = "done" /\ call.in.lm /\ call.in.train_flag) =>
    /\ call.out.p_one = Scale - call.in.droplm
    /\ call.in.droplm = 0 =>
         /\ \A t \in 1..call.in.T : call.out.lmmask[t] = 1
         /\ call.out.lm_input
    /\ call.in.droplm = Scale => \A t \in 1..call.in.T : call.out.lmmask[t] = 0

\* C21: whenever train_flag is false, for every droplm and both values of
\* force_lm, the mask is all zeros or the constant 1; a Bernoulli-drawn mask
\* occurs only when train_flag is true.
C21_EvalMaskDeterministic ==
  (callPc = "done" /\ call.op = "lm_done" /\ call.in.lm /\ ~call.in.train_flag) =>
    call.out.kind \in {"one", "zeros"}

\* what the code does: outside training the mask is drawn exactly when force_lm
\* is set and 0 < droplm < 1
C21_EvalMaskDrawnWhenForced ==
  (callPc = "done" /\ call.op = "lm_done" /\ call.in.lm /\ ~call.in.train_flag) =>
    (call.out.kind = "binomial" <=>
       (call.in.force_lm /\ call.in.droplm > 0 /\ call.in.droplm < Scale))

(***************************************************************************)
(* Container.to_json and Layer.to_json.  Names and the 'from' attribute    *)
(* are sequences of characters, so that the regular expression, int(),     *)
(* "%i" and split(',') are computed as the code computes them.             *)
(***************************************************************************)
\* the longest layer name
MaxName == 3

\* the longest 'from' attribute that is drawn
MaxFrom == 3

\* the largest number of to_json calls on one layer
MaxCalls == 3

DigitChars == <<"0", "1", "2", "3", "4", "5", "6", "7", "8", "9">>

IsDigit(c) == \E d \in 1..10 : DigitChars[d] = c

\* the value of one decimal digit
DigitVal(c) == (CHOOSE d \in 1..10 : DigitChars[d] = c) - 1

\* int(m.group(1))
RECURSIVE IntOf(_)
IntOf(run) ==
  IF run = <<>> THEN 0
  ELSE 10 * IntOf(SubSeq(run, 1, Len(run) - 1)) + DigitVal(run[Len(run)])

\* "%i" % n for n >= 0
RECURSIVE Decimal(_)
Decimal(n) ==
  IF n < 10 THEN <<DigitChars[n + 1]>>
  ELSE Append(Decimal(n \div 10), DigitChars[(n % 10) + 1])

\* m.end(1) of re.search("^.*?([0-9]+)[^0-9]*$", layer_name): the place of the
\* last digit, 0 if there is no match
GroupEnd(name) ==
  IF \E k \in 1..Len(name) : IsDigit(name[k])
  THEN CHOOSE k \in 1..Len(name) :
         IsDigit(name[k]) /\ \A j \in (k + 1)..Len(name) : ~IsDigit(name[j])
  ELSE 0

\* m.start(1): the lazy prefix stops at the first place from which digits run
\* up to the end of the group
GroupStart(name, last) ==
  CHOOSE k \in 1..last :
    /\ \A j \in k..last : IsDigit(name[j])
    /\ \A i \in 1..(k - 1) : \E j \in i..last : ~IsDigit(name[j])

\* "%s%i%s" % (layer_name[:m.start(1)], nr - 1, layer_name[m.end(1):])
Renumbered(name, first, last, nr) ==
  SubSeq(name, 1, first - 1) \o Decimal(nr - 1) \o SubSeq(name, last + 1, Len(name))

\* the group of a match, once its end is known
GuessFromGroup(name, first, last) ==
  IF IntOf(SubSeq(name, first, last)) > 0
  THEN [found |-> TRUE,
        name |-> Renumbered(name, first, last, IntOf(SubSeq(name, first, last)))]
  ELSE [found |-> FALSE, name |-> <<>>]

GuessAt(name, last) ==
  IF last = 0 THEN [found |-> FALSE, name |-> <<>>]
  ELSE GuessFromGroup(name, GroupStart(name, last), last)

\* the mutant takes the first run of digits of the name
GuessFirstRun(name) ==
  IF \E k \in 1..Len(name) : IsDigit(name[k])
  THEN GuessAt(name, CHOOSE k \in 1..Len(name) :
                       /\ IsDigit(name[k])
                       /\ (k < Len(name) => ~IsDigit(name[k + 1]))
                       /\ \A j \in 1..(k - 1) : IsDigit(name[j]) => IsDigit(name[j + 1]))
  ELSE [found |-> FALSE, name |-> <<>>]

\* guess_source_layer_name(layer_name); found is FALSE for None
GuessSourceLayerName(name) == GuessAt(name, GroupEnd(name))

\* str.split(','): parts holds the finished parts, cur the one being read
RECURSIVE SplitLoop(_, _, _, _)
SplitLoop(str, k, cur, parts) ==
  IF k > Len(str) THEN Append(parts, cur)
  ELSE IF str[k] = "," THEN SplitLoop(str, k + 1, <<>>, Append(parts, cur))
  ELSE SplitLoop(str, k + 1, Append(cur, str[k]), parts)

Split(str) == SplitLoop(str, 1, <<>>, <<>>)

DataName == <<"d", "a", "t", "a">>

\* whether to_json pops 'from' from its copy
FromPopped(attrs, name) ==
  /\ "from" \in DOMAIN attrs
  /\ \/ attrs["from"] = DataName
     \/ attrs["from"] = <<>> /\ ~GuessSourceLayerName(name).found

\* the value to_json gives to 'from' when the key stays
FromValue(from, name) ==
  IF from = <<>> THEN <<GuessSourceLayerName(name).name>> ELSE Split(from)

\* Container.to_json: the dict it returns, made from a copy of self.attrs
ContainerToJson(attrs, name) ==
  [k \in (DOMAIN attrs) \ (IF FromPopped(attrs, name) THEN {"from"} ELSE {}) |->
     IF k = "from" THEN FromValue(attrs["from"], name) ELSE attrs[k]]

\* attrs['class'] = self.layer_class on the returned dict
WithClass(json, layer_class) ==
  [k \in (DOMAIN json) \cup {"class"} |-> IF k = "class" THEN layer_class ELSE json[k]]

\* the mutant pops 'from' from self.attrs itself instead of from a copy
LayerToJsonPopInPlace(self) ==
  [attrs |-> [k \in (DOMAIN self.attrs)
                      \ (IF FromPopped(self.attrs, self.name) THEN {"from"} ELSE {}) |->
                self.attrs[k]],
   json |-> WithClass(ContainerToJson(self.attrs, self.name), self.layer_class)]

\* Layer.to_json: self.attrs after the call and the dict returned
LayerToJson(self) ==
  [attrs |-> self.attrs,
   json |-> WithClass(ContainerToJson(self.attrs, self.name), self.layer_class)]

\* the sequences over a set of characters up to a length
SeqsUpTo(chars, n) == UNION {[1..k -> chars] : k \in 0..n}

NameChars == {"h", "0", "1", "2"}

FromChars == {"a", ","}

\* self.attrs of a constructed layer: n_out, sparse and, if from.has, 'from'
JsonAttrs(from, n_out, sparse) ==
  [k \in {"n_out", "sparse"} \cup (IF from.has THEN {"from"} ELSE {}) |->
     CASE k = "n_out" -> n_out
       [] k = "sparse" -> sparse
       [] k = "from" -> from.v]

\* the calls set_attr(name, value) that are made on the constructed layer
SetAttrInputs ==
  {[name |-> "from", value |-> <<"a">>], [name |-> "from", value |-> <<>>],
   [name |-> "n_out", value |-> NUnits + 1]}

\* set_attr(name, value): self.attrs[name] = value
SetAttr(attrs, name, value) ==
  [k \in (DOMAIN attrs) \cup {name} |-> IF k = name THEN value ELSE attrs[k]]

\* before is self.attrs as the last call found it, taken[k] as the k-th to_json
\* call found it, and calls counts the calls of both methods
JsonInit ==
  /\ \E name \in SeqsUpTo(NameChars, MaxName),
        from \in {[has |-> FALSE, v |-> <<>>], [has |-> TRUE, v |-> DataName]}
                   \cup {[has |-> TRUE, v |-> f] : f \in SeqsUpTo(FromChars, MaxFrom)} :
       call = [op |-> "layer", name |-> name, layer_class |-> "rec",
               attrs |-> JsonAttrs(from, NUnits, FALSE),
               before |-> JsonAttrs(from, NUnits, FALSE),
               jsons |-> <<>>, taken |-> <<>>, calls |-> 0]
  /\ callPc = "constructed"
  /\ OthersAtRest

\* one call of to_json on the layer
CallToJson ==
  /\ callPc = "constructed"
  /\ call.calls < MaxCalls
  /\ call' = [call EXCEPT !.op = "to_json",
                          !.before = call.attrs,
                          !.attrs = LayerToJson(call).attrs,
                          !.jsons = Append(@, LayerToJson(call).json),
                          !.taken = Append(@, call.attrs),
                          !.calls = @ + 1]
  /\ UNCHANGED callPc
  /\ UNCHANGED <<stepVars, layerVars, scanVars, paramVars>>

\* one call of set_attr on the layer
CallSetAttr ==
  /\ callPc = "constructed"
  /\ call.calls < MaxCalls
  /\ \E in \in SetAttrInputs :
       call' = [call EXCEPT !.op = "set_attr",
                            !.before = call.attrs,
                            !.attrs = SetAttr(call.attrs, in.name, in.value),
                            !.calls = @ + 1]
  /\ UNCHANGED callPc
  /\ UNCHANGED <<stepVars, layerVars, scanVars, paramVars>>

JsonNext == CallToJson \/ CallSetAttr

SpecJson == JsonInit /\ [][JsonNext]_vars

\* ",".join(parts) for a list of at least one part
RECURSIVE JoinCommas(_)
JoinCommas(parts) ==
  IF Len(parts) = 1 THEN parts[1]
  ELSE JoinCommas(SubSeq(parts, 1, Len(parts) - 1)) \o <<",">> \o parts[Len(parts)]

\* C22: with 'from' being 'data' the key is omitted; with '' it is the list of
\* the layer's own name with its last run of digits replaced by that number
\* minus one when there is such a run of a value > 0, and omitted otherwise;
\* any other value becomes the list of its comma-separated parts; all other
\* attributes are returned unchanged.
C22_SourceNormalisation ==
  (call.op = "to_json") =>
    LET json == call.jsons[Len(call.jsons)]
        a == call.attrs
        name == call.name
        n == Len(name)
        \* name[i..j] is the last run of digits of the name
        LastRun(i, j) ==
          /\ \A k \in i..j : IsDigit(name[k])
          /\ \A k \in (j + 1)..n : ~IsDigit(name[k])
          /\ (i > 1 => ~IsDigit(name[i - 1]))
        Positive(i, j) == \E k \in i..j : name[k] # "0"
        \* the parts of a string hold no comma and give the string back when
        \* they are joined by commas
        PartsOf(f, parts) ==
          /\ \A p \in 1..Len(parts) : \A k \in 1..Len(parts[p]) : parts[p][k] # ","
          /\ JoinCommas(parts) = f
    IN  /\ \A k \in (DOMAIN a) \ {"from"} : k \in DOMAIN json /\ json[k] = a[k]
        /\ "from" \notin DOMAIN a => "from" \notin DOMAIN json
        /\ ("from" \in DOMAIN a /\ a["from"] = DataName) => "from" \notin DOMAIN json
        /\ ("from" \in DOMAIN a /\ a["from"] = <<>>) =>
             /\ \A i \in 1..n : \A j \in i..n :
                  (LastRun(i, j) /\ Positive(i, j)) =>
                    /\ "from" \in DOMAIN json
                    /\ Len(json["from"]) = 1
                    /\ json["from"][1] =
                         SubSeq(name, 1, i - 1) \o Decimal(IntOf(SubSeq(name, i, j)) - 1)
                           \o SubSeq(name, j + 1, n)
             /\ (~\E i \in 1..n : \E j \in i..n : LastRun(i, j) /\ Positive(i, j)) =>
                  "from" \notin DOMAIN json
        /\ ("from" \in DOMAIN a /\ a["from"] # DataName /\ a["from"] # <<>>) =>
             /\ "from" \in DOMAIN json
             /\ PartsOf(a["from"], json["from"])

\* the layer "h10" with an empty 'from' names "h9" as its source
C22_Witness ==
  /\ call.op = "to_json"
  /\ call.name = <<"h", "1", "0">>
  /\ "from" \in DOMAIN call.attrs
  /\ call.attrs["from"] = <<>>
  /\ Len(call.jsons) = 1
  /\ call.jsons[1]["from"] = << <<"h", "9">> >>

\* a 'from' of "a,a" was split into its two parts
C22_SplitWitness ==
  /\ call.op = "to_json"
  /\ "from" \in DOMAIN call.attrs
  /\ call.attrs["from"] = <<"a", ",", "a">>
  /\ Len(call.jsons) = 1
  /\ call.jsons[1]["from"] = << <<"a">>, <<"a">> >>

\* C23: to_json leaves the layer's attribute map, its 'from' entry included,
\* as it found it, and any number of to_json calls return equal mappings: two
\* calls that found the same attribute map returned the same mapping, whatever
\* was called in between.
C23_ToJsonStable ==
  (call.op = "to_json") =>
    /\ call.attrs = call.before
    /\ \A j \in 1..Len(call.jsons) : \A k \in 1..Len(call.jsons) :
         call.taken[j] = call.taken[k] => call.jsons[j] = call.jsons[k]

\* three calls in a row on a layer whose 'from' is rewritten in the returned
\* mapping
C23_Witness ==
  /\ call.op = "to_json"
  /\ Len(call.jsons) = 3
  /\ "from" \in DOMAIN call.attrs
  /\ call.attrs["from"] = <<"a", ",", "a">>
  /\ call.taken[1] = call.taken[3]
  /\ call.jsons[3]["from"] = << <<"a">>, <<"a">> >>

\* between two to_json calls set_attr gave 'from' another value, and the second
\* mapping follows it
C23_SetAttrBetween ==
  /\ call.op = "to_json"
  /\ call.name = <<"h", "1">>
  /\ Len(call.jsons) = 2
  /\ "from" \in DOMAIN call.taken[1]
  /\ call.taken[1]["from"] = <<>>
  /\ call.jsons[1]["from"] = << <<"h", "0">> >>
  /\ call.jsons[2]["from"] = << <<"a">> >>

(***************************************************************************)
(* The arity of the unit states.                                           *)
(***************************************************************************)
\* C24: for every unit the number of initial states the layer passes to the
\* scan (n_act plus the recurrent-transform states), the number of
\* previous-state arguments its step requires and the number of states the
\* step returns are equal, with n_act = 1 for VANILLA/GRU/SRU and 2 for the
\* LSTM variants.
C24_StateArity ==
  (layerPc = "constructed" /\ layer.status # "none") =>
    LET unit == layer.in.unit
        passed == Len(OutputsInfo(layer.in))
        required == (StepParams(unit) - 3)
                      + (IF StepVarArgs(unit) THEN Cardinality(layer.in.names) ELSE 0)
        returned == StepReturns(unit, layer.in.names)
    IN  /\ UnitDims(unit, NUnits).n_act = (IF unit = "lstme" THEN 2 ELSE 1)
        /\ passed = UnitDims(unit, NUnits).n_act + Cardinality(layer.in.names)
        /\ passed = required
        /\ required = returned

\* what the code does: the three numbers agree for the LSTM step only; a
\* vanilla step asks for two previous states and returns one, so it is either
\* called with the wrong number of arguments or returns too few outputs, and
\* the construction fails
C24_ArityByUnit ==
  (layerPc = "constructed" /\ layer.status # "none") =>
    /\ layer.in.unit = "lstme" =>
         /\ Len(OutputsInfo(layer.in)) = StepReturns("lstme", layer.in.names)
         /\ StepCallFits("lstme", 3 + Len(OutputsInfo(layer.in)))
    /\ layer.in.unit = "vanilla" =>
         /\ \/ ~StepCallFits("vanilla", 3 + Len(OutputsInfo(layer.in)))
            \/ Len(OutputsInfo(layer.in)) # StepReturns("vanilla", layer.in.names)
         /\ layer.status \in {"TypeError", "ValueError"}

(***************************************************************************)
(* Bulk updates that fail on the way.                                      *)
(***************************************************************************)
\* C25: when load or set_params_by_dict fails on some parameter, every
\* parameter processed earlier in the call keeps its newly assigned value, the
\* failing parameter and the parameters not yet processed keep their prior
\* values, and nothing is rolled back.
C25_PartialUpdate ==
  LET declared == DOMAIN pm.params
      \* the state left by a call that went through the names of order with
      \* the arrays of given, started from the heap prior and failed at the
      \* first name for which Fails holds
      PartialAt(order, given, prior, Fails(_)) ==
        \E k \in 1..Len(order) :
          /\ order[k] \in DOMAIN given
          /\ Fails(order[k])
          /\ \A j \in 1..(k - 1) : order[j] \in DOMAIN given => ~Fails(order[j])
          /\ \A j \in 1..(k - 1) :
               order[j] \in (DOMAIN given) \cap declared =>
                 pm.heap[pm.params[order[j]]].val = given[order[j]].val
          /\ \A j \in k..Len(order) :
               order[j] \in (DOMAIN given) \cap declared =>
                 pm.heap[pm.params[order[j]]] = prior[pm.params[order[j]]]
      LoadFails(p) ==
        /\ p \in declared
        /\ \/ pm.loaded.heap[pm.params[p]].shape # pm.loaded.store.entries[p].shape
           \/ \E i \in 1..Len(pm.loaded.store.entries[p].val) :
                pm.loaded.store.entries[p].val[i] \in {NaN, Inf}
      SetFails(p) ==
        \/ p \notin declared
        \/ pm.set.heap[pm.params[p]].shape # pm.set.params[p].shape
  IN  /\ (pmPc = "loaded" /\ pm.loaded.status # "ok") =>
           PartialAt(GroupOrder, pm.loaded.store.entries, pm.loaded.heap, LoadFails)
      /\ (pmPc = "set" /\ pm.set.status # "ok") =>
           PartialAt(pm.set.order, pm.set.params, pm.set.heap, SetFails)

\* set_params_by_dict failed on a name the layer does not declare after it had
\* given the recurrent weights and the bias their new values
C25_Witness ==
  /\ pmPc = "set"
  /\ pm.set.status = "KeyError"
  /\ pm.set.order = StoreOrder
  /\ DOMAIN pm.set.params = {"W_re_B", "b_B", "zz_B"}
  /\ {"W_re_B", "b_B"} \subseteq DOMAIN pm.params
  /\ pm.heap[pm.params["W_re_B"]].val = pm.set.params["W_re_B"].val
  /\ pm.heap[pm.params["W_re_B"]].val # pm.set.heap[pm.params["W_re_B"]].val
  /\ pm.heap[pm.params["b_B"]].val = pm.set.params["b_B"].val
  /\ pm.heap[pm.params["b_B"]].val # pm.set.heap[pm.params["b_B"]].val

\* a load failed on the bias after the recurrent weights were replaced
C25_LoadWitness ==
  /\ pmPc = "loaded"
  /\ pm.loaded.status = "AssertionError"
  /\ {"W_re_B", "b_B"} \subseteq (DOMAIN pm.params) \cap (DOMAIN pm.loaded.store.entries)
  /\ pm.heap[pm.params["W_re_B"]].val = pm.loaded.store.entries["W_re_B"].val
  /\ pm.heap[pm.params["W_re_B"]].val # pm.loaded.heap[pm.params["W_re_B"]].val
  /\ pm.heap[pm.params["b_B"]] = pm.loaded.heap[pm.params["b_B"]]

(***************************************************************************)
(* The width of a layer with flat consensus.                               *)
(***************************************************************************)
\* C26: a call of make_output with collapse, depth d > 1 and consensus 'flat'
\* multiplies the 'n_out' attribute by d, and every other consensus strategy
\* and depth = 1 leave it unchanged; so a layer constructed with depth d > 1
\* and flat consensus has n_out = d * n_units.
C26_FlatRewritesNOut ==
  (callPc = "done" /\ call.op = "make_output") =>
    /\ (call.consensus = "flat" /\ call.st.collapse /\ call.st.depth > 1) =>
         /\ call.st.status = "ok"
         /\ call.st.attrs["n_out"] = call.n_out * call.st.depth
    /\ (call.consensus # "flat" \/ call.st.depth = 1) =>
         call.st.attrs["n_out"] = call.n_out

\* what the code does: the constructor never stores the name 'flat', so a
\* collapsing make_output at depth > 1 fails on self.attrs['consensus'] and
\* 'n_out' is never rewritten
C26_NOutNeverRewritten ==
  (callPc = "done" /\ call.op = "make_output") =>
    /\ call.st.attrs["n_out"] = call.n_out
    /\ (call.consensus = "flat" /\ call.st.collapse /\ call.st.depth > 1) =>
         call.st.status = "KeyError"

=============================================================================
